---- MODULE Spec2Model ----
(***************************************************************************)
(* Model of the qring backend's real-time session gateway: the visitor     *)
(* session state machine (app/services/session_service.py and the          *)
(* homeowner routes), the presence registry (app/socket/manager.py), the   *)
(* signaling handlers (app/socket/events.py) and the QR resolver           *)
(* (app/services/qr_service.py).                                           *)
(***************************************************************************)
EXTENDS Integers, Sequences, FiniteSets, TLC

\* ------------------------------------------------------------------ bounds
MaxSessions == 2
MaxTime == 2
MaxConns == 2
MaxObjs == 3
MaxMsgs == 1
MaxReqs == 2
MaxDoors == 2
MaxEndCalls == 1
MaxControls == 1
MaxEvents == 2

\* timedelta(days=30): a paid plan without an end date runs this long.
SubscriptionDays == 30

\* ------------------------------------------------------------- value sets
Users == {"u1", "u2"}
NoUser == "none"
SessionIds == 1..MaxSessions
NoRow == [exists |-> FALSE]
NoTime == 0

\* Rows of the Door and Home tables that create_visitor_session reads.
DoorHome == [d \in {"d1", "d2"} |-> IF d = "d1" THEN "h1" ELSE "h2"]
HomeOwner == [h \in {"h1", "h2"} |-> IF h = "h1" THEN "u1" ELSE "u2"]
DoorIds == {"d1", "d2", "d3"}
HomeIds == {"h1", "h0"}
DoorLists == {<<>>, <<"d1">>, <<"d2", "d1">>, <<"d3">>}
Modes == {"direct", "selector", "auto"}
NoDoor == "none"

\* Signaling and dashboard connections, session rooms, set objects of the
\* room-membership table.
Conns == 1..MaxConns
NoSid == 0
Rooms == SessionIds
ObjIds == 1..MaxObjs
MsgIds == 1..MaxMsgs
Tokens == {"", "bad", "tok_u1", "tok_u2"}
Auths == [userId : Users \cup {""}, token : Tokens]

\* Codes the resolver is asked for; q0 has no row.
QrIds == {"q1", "q2", "q3"}
ScanIds == QrIds \cup {"q0"}
NoEstate == "none"
\* qr_codes.estate_id and estates.owner_id of the rows the resolver reads.
QrEstate == [q \in QrIds |-> IF q = "q3" THEN NoEstate ELSE "e1"]
EstateOwner == [e \in {"e1"} |-> "u1"]
ReqIds == 1..MaxReqs


VARIABLES
    sessions,         \* visitor_sessions table: SessionIds -> row or NoRow
    now,              \* datetime.utcnow(), as a counter
    httpResult,       \* the response of the last HTTP request handled
    controlLog,       \* session.control events emitted: [sessionId, action, senderSid, at, to]
    endCalls,         \* homeowner_end_visit calls suspended at their emit, per session
    conn,             \* each connection: "new", "dashboard", "signaling", "closing", "closed"
    socket_state,     \* SocketState: [user_sid, sid_user]
    session_members,  \* the dict's items in insertion order: <<[room, obj], ...>>
    heap,             \* the set objects session_members refers to: obj -> set of sids
    nextObj,          \* the next set object defaultdict(set) creates
    sioRooms,         \* the socket.io server's own room table (enter_room)
    join,             \* each connection's session.join handler: [pc, room]
    disc,             \* each connection's signaling disconnect handler: [pc, snap, idx, joined]
    recorded,         \* rooms whose membership each connection's join has recorded
    leftLog,          \* session.participant_left emitted: [sid][room] -> counts
    relayLog,         \* the last webrtc.* submission and what it delivered
    chat,             \* each chat message's handler and persistence task, and its events
    messages,         \* messages table: MsgIds -> row or NoRow
    qr_codes,         \* qr_codes.active of each code
    subscriptions,    \* the latest subscriptions row of each user
    req,              \* each resolve request: [pc, qr_id, result, rows]
    doorCall,         \* a select_door call: [pc, doors, mode, requested_door, result]
    submissions,      \* what each connection's client has sent, in order
    wire,             \* each connection's events sent and not yet received by the server
    ready,            \* the event loop's queue of handler tasks not yet started
    suspended,        \* handlers suspended at an await
    outbox,           \* each connection's outgoing packet queue: events emitted to it
    visit             \* a visitor request: the code's configuration, its progress and outcome

sessionVars == <<sessions, now, httpResult, controlLog, endCalls>>
gatewayVars == <<conn, socket_state, session_members, heap, nextObj, sioRooms, join, disc,
                 recorded, leftLog, relayLog>>
chatVars == <<chat, messages>>
qrVars == <<qr_codes, subscriptions, req>>
doorVars == <<doorCall>>
orderVars == <<submissions, wire, ready, suspended, outbox>>
visitVars == <<visit>>
vars == <<sessions, now, httpResult, controlLog, endCalls, conn, socket_state, session_members, heap,
          nextObj, sioRooms, join, disc, recorded, leftLog, relayLog, chat, messages,
          qr_codes, subscriptions, req, doorCall, submissions, wire, ready, suspended, outbox,
          visit>>

\* ---------------------------------------------------------- door router
\* Mutant: the requested door is honoured without the membership test.
select_door_AnyRequested(doors, mode, requested_door) ==
    IF doors = <<>> THEN [ok |-> FALSE, door |-> NoDoor, err |-> "No doors configured for QR", code |-> 404]
    ELSE IF mode = "direct" THEN [ok |-> TRUE, door |-> doors[1], err |-> "", code |-> 200]
    ELSE IF requested_door # NoDoor
        THEN [ok |-> TRUE, door |-> requested_door, err |-> "", code |-> 200]
    ELSE IF mode = "selector"
        THEN [ok |-> FALSE, door |-> NoDoor, err |-> "Door selection required", code |-> 400]
    ELSE [ok |-> TRUE, door |-> doors[1], err |-> "", code |-> 200]

\* Mutant: the requested door is honoured in every mode.
select_door_DirectHonours(doors, mode, requested_door) ==
    IF doors = <<>> THEN [ok |-> FALSE, door |-> NoDoor, err |-> "No doors configured for QR", code |-> 404]
    ELSE IF requested_door # NoDoor /\ \E i \in 1..Len(doors) : doors[i] = requested_door
        THEN [ok |-> TRUE, door |-> requested_door, err |-> "", code |-> 200]
    ELSE IF mode = "selector"
        THEN [ok |-> FALSE, door |-> NoDoor, err |-> "Door selection required", code |-> 400]
    ELSE [ok |-> TRUE, door |-> doors[1], err |-> "", code |-> 200]

\* Mutant: the empty-list test comes after the direct mode's return.
select_door_EmptyLate(doors, mode, requested_door) ==
    IF mode = "direct"
        THEN [ok |-> doors # <<>>, door |-> IF doors # <<>> THEN doors[1] ELSE NoDoor,
              err |-> IF doors # <<>> THEN "" ELSE "list index out of range",
              code |-> IF doors # <<>> THEN 200 ELSE 500]
    ELSE IF doors = <<>> THEN [ok |-> FALSE, door |-> NoDoor, err |-> "No doors configured for QR", code |-> 404]
    ELSE IF requested_door # NoDoor /\ \E i \in 1..Len(doors) : doors[i] = requested_door
        THEN [ok |-> TRUE, door |-> requested_door, err |-> "", code |-> 200]
    ELSE IF mode = "selector"
        THEN [ok |-> FALSE, door |-> NoDoor, err |-> "Door selection required", code |-> 400]
    ELSE [ok |-> TRUE, door |-> doors[1], err |-> "", code |-> 200]

\* Mutant: an unknown mode falls back to the last door.
select_door_LastDoor(doors, mode, requested_door) ==
    IF doors = <<>> THEN [ok |-> FALSE, door |-> NoDoor, err |-> "No doors configured for QR", code |-> 404]
    ELSE IF mode = "direct" THEN [ok |-> TRUE, door |-> doors[1], err |-> "", code |-> 200]
    ELSE IF requested_door # NoDoor /\ \E i \in 1..Len(doors) : doors[i] = requested_door
        THEN [ok |-> TRUE, door |-> requested_door, err |-> "", code |-> 200]
    ELSE IF mode = "selector"
        THEN [ok |-> FALSE, door |-> NoDoor, err |-> "Door selection required", code |-> 400]
    ELSE [ok |-> TRUE, door |-> doors[Len(doors)], err |-> "", code |-> 200]

select_door(doors, mode, requested_door) ==
    IF doors = <<>> THEN [ok |-> FALSE, door |-> NoDoor, err |-> "No doors configured for QR", code |-> 404]
    ELSE IF mode = "direct" THEN [ok |-> TRUE, door |-> doors[1], err |-> "", code |-> 200]
    ELSE IF requested_door # NoDoor /\ \E i \in 1..Len(doors) : doors[i] = requested_door
        THEN [ok |-> TRUE, door |-> requested_door, err |-> "", code |-> 200]
    ELSE IF mode = "selector"
        THEN [ok |-> FALSE, door |-> NoDoor, err |-> "Door selection required", code |-> 400]
    ELSE [ok |-> TRUE, door |-> doors[1], err |-> "", code |-> 200]

\* Door lists and modes a QR code can carry, requested doors a visitor can send.
DoorSeqs == UNION {[1..n -> DoorIds] : n \in 0..MaxDoors}
DoorModes == Modes \cup {""}
RequestedDoors == DoorIds \cup {NoDoor}
NoResult == [ok |-> FALSE, door |-> NoDoor, err |-> "", code |-> 0]

\* One call of select_door on the arguments drawn at the start.
SelectDoor ==
    /\ doorCall.pc = "call"
    /\ doorCall' = [doorCall EXCEPT !.pc = "returned",
                       !.result = select_door(doorCall.doors, doorCall.mode, doorCall.requested_door)]
    /\ UNCHANGED <<sessionVars, gatewayVars, chatVars, qrVars, orderVars, visitVars>>

DoorVarsInit ==
    doorCall = [pc |-> "idle", doors |-> <<>>, mode |-> "direct", requested_door |-> NoDoor,
                result |-> NoResult]

\* --------------------------------------------------------- socket.io server
NoSession == 0

\* The connections an emit to `room=key` reaches on the signaling namespace:
\* a connection's own id names the room that holds it alone.
Participants(key) ==
    IF key[1] = "sid" THEN {c \in {key[2]} : conn[c] = "signaling"}
    ELSE IF key[1] = "room" THEN {c \in sioRooms[key[2]] : conn[c] = "signaling"}
    ELSE {}

\* ------------------------------------------------- session state machine
TerminalStatuses == {"rejected", "closed", "completed"}

FreshSessionIds == {s \in SessionIds : ~sessions[s].exists /\ \A t \in SessionIds : t < s => sessions[t].exists}

\* create_visitor_session: the row it adds for the selected door.
NewSessionRow(selected_door, qr_home_id) ==
    LET doorFound == selected_door \in DOMAIN DoorHome
        homeKey == IF doorFound THEN DoorHome[selected_door] ELSE qr_home_id
        homeFound == homeKey \in DOMAIN HomeOwner
    IN [exists |-> TRUE,
        home_id |-> homeKey,
        door_id |-> selected_door,
        homeowner_id |-> IF homeFound THEN HomeOwner[homeKey] ELSE "",
        status |-> "pending",
        ended_at |-> NoTime]

create_visitor_session(qr_home_id, doors, mode, requested_door) ==
    LET sel == select_door(doors, mode, requested_door) IN
    /\ IF sel.ok
          THEN \E s \in FreshSessionIds :
                /\ sessions' = [sessions EXCEPT ![s] = NewSessionRow(sel.door, qr_home_id)]
                /\ httpResult' = [op |-> "create", session |-> s, code |-> 200, detail |-> "pending"]
          ELSE /\ sessions' = sessions
               /\ httpResult' = [op |-> "create", session |-> 0, code |-> sel.code, detail |-> sel.err]
    /\ UNCHANGED <<now, controlLog, endCalls, gatewayVars, chatVars, qrVars, doorVars, orderVars, visitVars>>

\* Mutant: a terminal status stamps the end time again.
MarkedRow_Restamp(row, status) ==
    [row EXCEPT !.status = status,
                !.ended_at = IF status \in TerminalStatuses THEN now ELSE row.ended_at]

\* Mutant: the update writes the whole row anew, without its door and home.
MarkedRow_Rehomed(row, status) ==
    [exists |-> TRUE, home_id |-> "", door_id |-> NoDoor, homeowner_id |-> row.homeowner_id,
     status |-> status,
     ended_at |-> IF status \in TerminalStatuses
                     THEN (IF row.ended_at # NoTime THEN row.ended_at ELSE now)
                     ELSE row.ended_at]

\* The row mark_session_status commits.
MarkedRow(row, status) ==
    [row EXCEPT !.status = status,
                !.ended_at = IF status \in TerminalStatuses
                                THEN (IF row.ended_at # NoTime THEN row.ended_at ELSE now)
                                ELSE row.ended_at]

mark_session_status(session_id, status) ==
    IF sessions[session_id].exists
       THEN [sessions EXCEPT ![session_id] = MarkedRow(sessions[session_id], status)]
       ELSE sessions

\* Mutant: the lookup filters on the session id alone.
OwnedBy_AnyUser(session_id, user) ==
    sessions[session_id].exists

\* The route's own lookup: the session of this id owned by this user.
OwnedBy(session_id, user) ==
    sessions[session_id].exists /\ sessions[session_id].homeowner_id = user

homeowner_visit_decision(session_id, action, user) ==
    /\ IF action \notin {"approve", "reject"}
          THEN /\ sessions' = sessions
               /\ httpResult' = [op |-> "decision", session |-> session_id, code |-> 400,
                                 detail |-> "Action must be approve or reject"]
          ELSE IF ~OwnedBy(session_id, user)
          THEN /\ sessions' = sessions
               /\ httpResult' = [op |-> "decision", session |-> session_id, code |-> 404,
                                 detail |-> "Visit not found"]
          ELSE /\ sessions' = mark_session_status(session_id,
                                  IF action = "approve" THEN "approved" ELSE "rejected")
               /\ httpResult' = [op |-> "decision", session |-> session_id, code |-> 200,
                                 detail |-> sessions'[session_id].status]
    /\ UNCHANGED <<now, controlLog, endCalls, gatewayVars, chatVars, qrVars, doorVars, orderVars, visitVars>>

\* homeowner_end_visit up to its await: closes the session, then emits.
homeowner_end_visit(session_id, user) ==
    /\ IF ~OwnedBy(session_id, user)
          THEN /\ sessions' = sessions
               /\ httpResult' = [op |-> "end", session |-> session_id, code |-> 404,
                                 detail |-> "Visit not found"]
               /\ endCalls' = endCalls
          ELSE /\ endCalls[session_id] < MaxEndCalls
               /\ sessions' = mark_session_status(session_id, "closed")
               /\ httpResult' = httpResult
               /\ endCalls' = [endCalls EXCEPT ![session_id] = @ + 1]
    /\ UNCHANGED <<now, controlLog, gatewayVars, chatVars, qrVars, doorVars, orderVars, visitVars>>

\* The session.control event the end-visit route emits: no senderSid, no at.
EndControl(session_id) ==
    [sessionId |-> session_id, action |-> "end", senderSid |-> NoSid, at |-> NoTime,
     to |-> Participants(<<"room", session_id>>)]

\* homeowner_end_visit resumed: session.control is out, the response returns
\* the status read back when the session was closed.
EndVisitEmit(session_id) ==
    /\ endCalls[session_id] > 0
    /\ controlLog' = controlLog \cup {EndControl(session_id)}
    /\ endCalls' = [endCalls EXCEPT ![session_id] = @ - 1]
    /\ httpResult' = [op |-> "end", session |-> session_id, code |-> 200, detail |-> "closed"]
    /\ UNCHANGED <<sessions, now, gatewayVars, chatVars, qrVars, doorVars, orderVars, visitVars>>

Tick ==
    /\ now < MaxTime
    /\ now' = now + 1
    /\ UNCHANGED <<sessions, httpResult, controlLog, endCalls, gatewayVars, chatVars, qrVars, doorVars, orderVars, visitVars>>

SessionInit ==
    /\ sessions = [s \in SessionIds |-> NoRow]
    /\ now = 1
    /\ httpResult = [op |-> "none", session |-> 0, code |-> 0, detail |-> ""]
    /\ controlLog = {}
    /\ endCalls = [s \in SessionIds |-> 0]

CreateSession ==
    \E h \in HomeIds, doors \in DoorLists, mode \in Modes, rd \in {NoDoor, "d1", "d3"} :
        create_visitor_session(h, doors, mode, rd)

Decision ==
    \E s \in SessionIds, a \in {"approve", "reject", "hold"}, u \in Users :
        homeowner_visit_decision(s, a, u)

EndVisit ==
    \E s \in SessionIds, u \in Users : homeowner_end_visit(s, u)

EndVisitResume ==
    \E s \in SessionIds : EndVisitEmit(s)

SessionNext == CreateSession \/ Decision \/ EndVisit \/ EndVisitResume \/ Tick

\* ------------------------------------------------------ presence registry
\* decode_token: the subject of a token that verifies, or a failure.
\* Mutant: a token that does not verify is read all the same.
decode_token_Unverified(token) ==
    IF token = "tok_u2" THEN [ok |-> TRUE, sub |-> "u2"]
    ELSE [ok |-> TRUE, sub |-> "u1"]

decode_token(token) ==
    IF token = "tok_u1" THEN [ok |-> TRUE, sub |-> "u1"]
    ELSE IF token = "tok_u2" THEN [ok |-> TRUE, sub |-> "u2"]
    ELSE [ok |-> FALSE, sub |-> NoUser]

resolve_user_id(auth) ==
    IF auth.userId # "" THEN auth.userId
    ELSE IF auth.token = "" THEN NoUser
    ELSE IF decode_token(auth.token).ok THEN decode_token(auth.token).sub
    ELSE NoUser

\* Mutant: only the user's entry is written.
bind_ForwardOnly(st, user_id, sid) ==
    [user_sid |-> [st.user_sid EXCEPT ![user_id] = sid],
     sid_user |-> st.sid_user]

bind(st, user_id, sid) ==
    [user_sid |-> [st.user_sid EXCEPT ![user_id] = sid],
     sid_user |-> [st.sid_user EXCEPT ![sid] = user_id]]

\* Mutant: only the connection's own entry is popped.
unbind_sid_ReverseOnly(st, sid) ==
    [user_sid |-> st.user_sid,
     sid_user |-> [st.sid_user EXCEPT ![sid] = NoUser]]

unbind_sid(st, sid) ==
    LET user_id == st.sid_user[sid] IN
    [user_sid |-> IF user_id # NoUser /\ st.user_sid[user_id] = sid
                     THEN [st.user_sid EXCEPT ![user_id] = NoSid]
                     ELSE st.user_sid,
     sid_user |-> [st.sid_user EXCEPT ![sid] = NoUser]]

get_sid(st, user_id) == st.user_sid[user_id]

\* What connect does to the registry: bind when an identity resolves.
BoundOnConnect(st, sid, auth) ==
    IF resolve_user_id(auth) # NoUser THEN bind(st, resolve_user_id(auth), sid) ELSE st

roomVars == <<session_members, heap, nextObj, sioRooms, join, disc, recorded, leftLog>>

\* connect on the dashboard namespace.
DashConnect(c, auth) ==
    /\ conn[c] = "new"
    /\ conn' = [conn EXCEPT ![c] = "dashboard"]
    /\ socket_state' = BoundOnConnect(socket_state, c, auth)
    /\ UNCHANGED <<roomVars, relayLog, sessionVars, chatVars, qrVars, doorVars, orderVars, visitVars>>

\* disconnect on the dashboard namespace.
DashDisconnect(c) ==
    /\ conn[c] = "dashboard"
    /\ conn' = [conn EXCEPT ![c] = "closed"]
    /\ socket_state' = unbind_sid(socket_state, c)
    /\ UNCHANGED <<roomVars, relayLog, sessionVars, chatVars, qrVars, doorVars, orderVars, visitVars>>

\* connect on the signaling namespace.
SigConnect(c, auth) ==
    /\ conn[c] = "new"
    /\ conn' = [conn EXCEPT ![c] = "signaling"]
    /\ socket_state' = BoundOnConnect(socket_state, c, auth)
    /\ UNCHANGED <<roomVars, relayLog, sessionVars, chatVars, qrVars, doorVars, orderVars, visitVars>>

\* ------------------------------------------------------- room membership
HasRoom(sm, room) == \E i \in 1..Len(sm) : sm[i].room = room
ObjOf(sm, room) == sm[CHOOSE i \in 1..Len(sm) : sm[i].room = room].obj
PopRoom(sm, room) == SelectSeq(sm, LAMBDA e : e.room # room)

\* session_members[room] on a defaultdict(set): a missing key gets a new empty set.
Touch(sm, room) == IF HasRoom(sm, room) THEN sm ELSE Append(sm, [room |-> room, obj |-> nextObj])
CanTouch(sm, room) == HasRoom(sm, room) \/ nextObj <= MaxObjs
NextObjAfter(sm, room) == IF HasRoom(sm, room) THEN nextObj ELSE nextObj + 1

\* Members of a room of the membership table, as len(session_members[room]) reads it.
Members(room) == IF HasRoom(session_members, room) THEN heap[ObjOf(session_members, room)] ELSE {}

\* A connection with no session.join in progress and none handled yet: the
\* event and the count of its last emit, and the connections that emit went to.
IdleJoin == [pc |-> "idle", room |-> 0, event |-> "", count |-> 0, to |-> {}]

\* The count of both emits of session.join: len(session_members[room]) as
\* the table stands when the emit's arguments are built.
MemberCount(sm, hp, room) == Cardinality(hp[ObjOf(sm, room)])

\* session.join up to its first await: enter_room.
SessionJoinEnter(c, room) ==
    /\ conn[c] = "signaling"
    /\ join[c].pc = "idle"
    /\ sioRooms' = [sioRooms EXCEPT ![room] = @ \cup {c}]
    /\ join' = [join EXCEPT ![c] = [IdleJoin EXCEPT !.pc = "entered", !.room = room]]
    /\ UNCHANGED <<conn, socket_state, session_members, heap, nextObj, disc, recorded,
                   leftLog, relayLog, sessionVars, chatVars, qrVars, doorVars, orderVars, visitVars>>

\* session.join resumed: records the membership and emits participant_joined.
SessionJoinRecord(c) ==
    LET room == join[c].room
        sm == Touch(session_members, room)
    IN
    /\ join[c].pc = "entered"
    /\ CanTouch(session_members, room)
    /\ session_members' = sm
    /\ nextObj' = NextObjAfter(session_members, room)
    /\ heap' = [heap EXCEPT ![ObjOf(sm, room)] = @ \cup {c}]
    /\ recorded' = [recorded EXCEPT ![c] = @ \cup {room}]
    /\ join' = [join EXCEPT ![c] = [pc |-> "announced", room |-> room,
                                     event |-> "session.participant_joined",
                                     count |-> MemberCount(sm, heap', room),
                                     to |-> sioRooms[room] \ {c}]]
    /\ UNCHANGED <<conn, socket_state, sioRooms, disc, leftLog, relayLog, sessionVars, chatVars, qrVars, doorVars, orderVars, visitVars>>

\* session.join resumed again: emits session.joined to the joiner.
SessionJoinAck(c) ==
    LET room == join[c].room IN
    /\ join[c].pc = "announced"
    /\ CanTouch(session_members, room)
    /\ session_members' = Touch(session_members, room)
    /\ nextObj' = NextObjAfter(session_members, room)
    /\ join' = [join EXCEPT ![c] = [pc |-> "idle", room |-> room,
                                     event |-> "session.joined",
                                     count |-> MemberCount(session_members', heap, room),
                                     to |-> {c}]]
    /\ UNCHANGED <<conn, socket_state, heap, sioRooms, disc, recorded, leftLog, relayLog,
                   sessionVars, chatVars, qrVars, doorVars, orderVars, visitVars>>

\* The first entry of the snapshot at or after `from` that holds sid, or 0.
NextHit(snap, from, sid, hp) ==
    IF \E j \in from..Len(snap) : sid \in hp[snap[j].obj]
       THEN CHOOSE j \in from..Len(snap) :
                /\ sid \in hp[snap[j].obj]
                /\ \A k \in from..(j - 1) : sid \notin hp[snap[k].obj]
       ELSE 0

\* The disconnect loop from entry `from` of its snapshot to its next await (the
\* emit of participant_left) or to its end, where the server drops the
\* connection from its own rooms.
DisconnectLoop(c, snap, from, sm, joined) ==
    LET j == NextHit(snap, from, c, heap) IN
    /\ session_members' = sm
    /\ IF j = 0
          THEN /\ heap' = heap
               /\ leftLog' = leftLog
               /\ disc' = [disc EXCEPT ![c] = [pc |-> "done", snap |-> <<>>, idx |-> 0,
                                                joined |-> joined]]
               /\ conn' = [conn EXCEPT ![c] = "closed"]
               /\ sioRooms' = [r \in Rooms |-> sioRooms[r] \ {c}]
          ELSE /\ heap' = [heap EXCEPT ![snap[j].obj] = @ \ {c}]
               /\ leftLog' = [leftLog EXCEPT ![c][snap[j].room] =
                                 Append(@, Cardinality(heap[snap[j].obj] \ {c}))]
               /\ disc' = [disc EXCEPT ![c] = [pc |-> "emit", snap |-> snap, idx |-> j,
                                                joined |-> joined]]
               /\ conn' = [conn EXCEPT ![c] = "closing"]
               /\ sioRooms' = sioRooms

\* disconnect on the signaling namespace, up to its first await.
SigDisconnect(c) ==
    /\ conn[c] = "signaling"
    /\ socket_state' = unbind_sid(socket_state, c)
    /\ DisconnectLoop(c, session_members, 1, session_members, recorded[c])
    /\ UNCHANGED <<nextObj, join, recorded, relayLog, sessionVars, chatVars, qrVars, doorVars, orderVars, visitVars>>

\* disconnect resumed after an emit: drops the room when its set is empty and
\* goes on with the snapshot.
SigDisconnectResume(c) ==
    LET e == disc[c].snap[disc[c].idx] IN
    /\ disc[c].pc = "emit"
    /\ DisconnectLoop(c, disc[c].snap, disc[c].idx + 1,
                      IF heap[e.obj] = {} THEN PopRoom(session_members, e.room)
                                          ELSE session_members,
                      disc[c].joined)
    /\ UNCHANGED <<socket_state, nextObj, join, recorded, relayLog, sessionVars, chatVars, qrVars, doorVars, orderVars, visitVars>>

\* --------------------------------------------------------- signaling relay
NoTarget == <<"none", 0>>
Targets == {NoTarget} \cup {<<"sid", c>> : c \in Conns} \cup {<<"room", r>> : r \in Rooms}

\* webrtc.offer / webrtc.answer / webrtc.ice: what the handler emits.
Relayed(sid, event, target, session_id) ==
    IF target # NoTarget
       THEN [event |-> event, from |-> sid, target |-> target, session |-> session_id,
             emitted |-> TRUE, to |-> Participants(target), sender |-> NoSid]
    ELSE IF session_id # NoSession
       THEN [event |-> event, from |-> sid, target |-> target, session |-> session_id,
             emitted |-> TRUE, to |-> Participants(<<"room", session_id>>) \ {sid},
             sender |-> sid]
    ELSE [event |-> event, from |-> sid, target |-> target, session |-> session_id,
          emitted |-> FALSE, to |-> {}, sender |-> NoSid]

webrtc_relay(c, event, target, session_id) ==
    /\ conn[c] = "signaling"
    /\ relayLog' = Relayed(c, event, target, session_id)
    /\ UNCHANGED <<conn, socket_state, roomVars, sessionVars, chatVars, qrVars, doorVars, orderVars, visitVars>>

NoRelay == [event |-> "none", from |-> NoSid, target |-> NoTarget, session |-> NoSession,
            emitted |-> FALSE, to |-> {}, sender |-> NoSid]

GatewayInit ==
    /\ conn = [c \in Conns |-> "new"]
    /\ socket_state = [user_sid |-> [u \in Users |-> NoSid], sid_user |-> [c \in Conns |-> NoUser]]
    /\ session_members = <<>>
    /\ heap = [o \in ObjIds |-> {}]
    /\ nextObj = 1
    /\ sioRooms = [r \in Rooms |-> {}]
    /\ join = [c \in Conns |-> IdleJoin]
    /\ disc = [c \in Conns |-> [pc |-> "idle", snap |-> <<>>, idx |-> 0, joined |-> {}]]
    /\ recorded = [c \in Conns |-> {}]
    /\ leftLog = [c \in Conns |-> [r \in Rooms |-> <<>>]]
    /\ relayLog = NoRelay

\* Presence: connects and disconnects on both namespaces, no rooms.
PresenceNext ==
    \/ \E c \in Conns, a \in Auths : DashConnect(c, a)
    \/ \E c \in Conns : DashDisconnect(c)
    \/ \E c \in Conns, a \in Auths : SigConnect(c, a)
    \/ \E c \in Conns : SigDisconnect(c)

AnonAuth == [userId |-> "", token |-> ""]

\* Rooms: anonymous signaling connections joining and leaving session rooms.
RoomNext ==
    \/ \E c \in Conns : SigConnect(c, AnonAuth)
    \/ \E c \in Conns, r \in Rooms : SessionJoinEnter(c, r)
    \/ \E c \in Conns : SessionJoinRecord(c)
    \/ \E c \in Conns : SessionJoinAck(c)
    \/ \E c \in Conns : SigDisconnect(c)
    \/ \E c \in Conns : SigDisconnectResume(c)

FreeChat == [pc |-> "free"]

ChatVarsInit ==
    /\ chat = [m \in MsgIds |-> FreeChat]
    /\ messages = [m \in MsgIds |-> NoRow]

OrderVarsInit ==
    /\ submissions = [c \in Conns |-> <<>>]
    /\ wire = [c \in Conns |-> <<>>]
    /\ ready = <<>>
    /\ suspended = {}
    /\ outbox = [c \in Conns |-> <<>>]

\* No visitor request yet, for a code configured with no doors.
IdleVisit(config) ==
    [pc |-> "idle", config |-> config, qr_id |-> "q0", requested_door |-> NoDoor,
     resolved |-> FALSE, doors |-> <<>>, code |-> 0, detail |-> "", session |-> 0,
     notifications |-> 0, patches |-> 0]

VisitVarsInit == visit = IdleVisit([doors |-> <<>>, mode |-> "direct", home_id |-> "h1"])

IdleReq == [pc |-> "idle", qr_id |-> "q0", result |-> "", rows |-> 0]

QrVarsInit ==
    /\ qr_codes = [q \in QrIds |-> TRUE]
    /\ subscriptions = [u \in Users |-> NoRow]
    /\ req = [r \in ReqIds |-> IdleReq]

Init == SessionInit /\ GatewayInit /\ ChatVarsInit /\ QrVarsInit /\ DoorVarsInit /\ OrderVarsInit /\ VisitVarsInit

SessionSpec == Init /\ [][SessionNext]_vars

\* select_door on every argument triple within the bounds.
DoorInit ==
    /\ SessionInit
    /\ OrderVarsInit
    /\ VisitVarsInit
    /\ GatewayInit
    /\ ChatVarsInit
    /\ QrVarsInit
    /\ \E doors \in DoorSeqs, mode \in DoorModes, rd \in RequestedDoors :
          doorCall = [pc |-> "call", doors |-> doors, mode |-> mode, requested_door |-> rd,
                      result |-> NoResult]

DoorNext == SelectDoor

DoorSpec == DoorInit /\ [][DoorNext]_vars

PresenceSpec == Init /\ [][PresenceNext]_vars

RoomSpec == Init /\ [][RoomNext]_vars

\* ------------------------------------------------ a gateway at rest
\* The rooms of S in ascending order.
RECURSIVE RoomSeq(_)
RoomSeq(S) ==
    IF S = {} THEN <<>>
    ELSE LET m == CHOOSE x \in S : \A y \in S : x <= y IN <<m>> \o RoomSeq(S \ {m})

\* The last connection bound to a user when connections connect in ascending order.
LastBound(userOf, u) ==
    IF \E c \in Conns : userOf[c] = u
       THEN CHOOSE c \in Conns : userOf[c] = u /\ \A d \in Conns : userOf[d] = u => d <= c
       ELSE NoSid

\* The gateway after the connections of st connected in ascending order with the
\* identities userOf and joined the rooms mem room by room, every handler finished.
GatewayAtRest(st, userOf, mem) ==
    LET rs == RoomSeq({r \in Rooms : mem[r] # {}}) IN
    /\ conn = st
    /\ socket_state = [user_sid |-> [u \in Users |-> LastBound(userOf, u)], sid_user |-> userOf]
    /\ session_members = [i \in 1..Len(rs) |-> [room |-> rs[i], obj |-> i]]
    /\ heap = [o \in ObjIds |-> IF o <= Len(rs) THEN mem[rs[o]] ELSE {}]
    /\ nextObj = Len(rs) + 1
    /\ sioRooms = mem
    /\ join = [c \in Conns |-> IdleJoin]
    /\ disc = [c \in Conns |-> [pc |-> "idle", snap |-> <<>>, idx |-> 0, joined |-> {}]]
    /\ recorded = [c \in Conns |-> {r \in Rooms : c \in mem[r]}]
    /\ leftLog = [c \in Conns |-> [r \in Rooms |-> <<>>]]
    /\ relayLog = NoRelay

webrtc_offer(c, target, session_id) == webrtc_relay(c, "webrtc.offer", target, session_id)
webrtc_answer(c, target, session_id) == webrtc_relay(c, "webrtc.answer", target, session_id)
webrtc_ice(c, target, session_id) == webrtc_relay(c, "webrtc.ice", target, session_id)

RelayInit ==
    /\ SessionInit
    /\ ChatVarsInit
    /\ DoorVarsInit
    /\ OrderVarsInit
    /\ VisitVarsInit
    /\ QrVarsInit
    /\ \E st \in [Conns -> {"new", "dashboard", "signaling"}], mem \in [Rooms -> SUBSET Conns] :
          /\ \A r \in Rooms : \A c \in mem[r] : st[c] = "signaling"
          /\ GatewayAtRest(st, [c \in Conns |-> NoUser], mem)

RelayNext ==
    \/ \E c \in Conns, t \in Targets, s \in Rooms \cup {NoSession} : webrtc_offer(c, t, s)
    \/ \E c \in Conns, t \in Targets, s \in Rooms \cup {NoSession} : webrtc_answer(c, t, s)
    \/ \E c \in Conns, t \in Targets, s \in Rooms \cup {NoSession} : webrtc_ice(c, t, s)

RelaySpec == RelayInit /\ [][RelayNext]_vars

\* Session tables a chat can meet: a session of u1's home, one of u2's home, one
\* whose door and home have no row (no owner), or no session at all.
ChatTables ==
    {[s \in SessionIds |-> IF s = 1 THEN NewSessionRow("d1", "h1") ELSE NoRow],
     [s \in SessionIds |-> IF s = 1 THEN NewSessionRow("d2", "h1") ELSE NewSessionRow("d3", "h0")]}

\* Room memberships a chat can meet: everyone in room 1, or connection 1 alone.
ChatRooms ==
    {[r \in Rooms |-> IF r = 1 THEN Conns ELSE {}], [r \in Rooms |-> IF r = 1 THEN {1} ELSE {}]}

\* ---------------------------------------------------------- session.control
ControlActions == {"", "end", "mute"}

SocketControls == {e \in controlLog : e.senderSid # NoSid}

\* session.control from a signaling connection: relayed to the session's room
\* with the sender's id and the time.
session_control(c, session_id, action) ==
    /\ conn[c] = "signaling"
    /\ IF session_id = NoSession \/ action = ""
          THEN controlLog' = controlLog
          ELSE /\ Cardinality(SocketControls) < MaxControls
               /\ controlLog' = controlLog \cup
                     {[sessionId |-> session_id, action |-> action, senderSid |-> c, at |-> now,
                       to |-> Participants(<<"room", session_id>>)]}
    /\ UNCHANGED <<sessions, now, httpResult, endCalls, gatewayVars, chatVars, qrVars, doorVars, orderVars, visitVars>>

SessionControl ==
    \E c \in Conns, s \in SessionIds \cup {NoSession}, a \in ControlActions :
        session_control(c, s, a)

\* Sessions waiting for a decision, their rooms holding the connected parties.
ControlInit ==
    /\ sessions \in ChatTables
    /\ now = 1
    /\ httpResult = [op |-> "none", session |-> 0, code |-> 0, detail |-> ""]
    /\ controlLog = {}
    /\ endCalls = [s \in SessionIds |-> 0]
    /\ \E mem \in ChatRooms :
          GatewayAtRest([c \in Conns |-> "signaling"], [c \in Conns |-> NoUser], mem)
    /\ ChatVarsInit
    /\ DoorVarsInit
    /\ OrderVarsInit
    /\ VisitVarsInit
    /\ QrVarsInit

ControlNext == Decision \/ EndVisit \/ EndVisitResume \/ SessionControl \/ Tick

ControlSpec == ControlInit /\ [][ControlNext]_vars

\* A suspended end-visit handler is resumed once its emit is done.
ControlFairness == \A s \in SessionIds : WF_vars(EndVisitEmit(s))

LiveControlSpec == ControlInit /\ [][ControlNext]_vars /\ ControlFairness

\* ------------------------------------------------------------- chat pipeline
\* Mutant: a schedule that does not grow.
CHAT_PERSIST_RETRY_DELAYS_Flat == <<35, 35, 35>>

\* CHAT_PERSIST_RETRY_DELAYS, in hundredths of a second.
CHAT_PERSIST_RETRY_DELAYS == <<35, 100, 200>>

\* str.strip() on a text given as a sequence of characters.
RECURSIVE StripLeft(_)
StripLeft(s) == IF s # <<>> /\ Head(s) = " " THEN StripLeft(Tail(s)) ELSE s
RECURSIVE StripRight(_)
StripRight(s) == IF s # <<>> /\ s[Len(s)] = " " THEN StripRight(SubSeq(s, 1, Len(s) - 1)) ELSE s
Strip(s) == StripRight(StripLeft(s))

Texts == {<<>>, <<" ">>, <<"h", "i">>, <<" ", "h", " ">>}
SenderClaims == {"homeowner", "visitor", "admin"}

\* Mutant: the broadcast never trusts the claim.
OptimisticSenderType_Visitor(raw_sender_type) == "visitor"

\* The sender type chat_message broadcasts: the claim when it is a known type.
OptimisticSenderType(raw_sender_type) ==
    IF raw_sender_type \in {"homeowner", "visitor"} THEN raw_sender_type ELSE "visitor"

\* Mutant: any authenticated sender is taken for the homeowner.
ResolvedSenderType_AnyUser(sender_user_id, homeowner_id) ==
    IF sender_user_id # NoUser THEN "homeowner" ELSE "visitor"

\* The sender type persist_chat_message_with_retry stores.
ResolvedSenderType(sender_user_id, homeowner_id) ==
    IF sender_user_id # NoUser /\ sender_user_id = homeowner_id THEN "homeowner" ELSE "visitor"

FreshMsgIds == {m \in MsgIds : chat[m].pc = "free" /\ \A k \in MsgIds : k < m => chat[k].pc # "free"}

\* Mutant: only a text that is empty as sent is refused.
Refused_EmptyOnly(session_id, text) == session_id = NoSession \/ text = <<>>

\* chat_message's early return: no sessionId, or no text left once stripped.
Refused(session_id, text) == session_id = NoSession \/ Strip(text) = <<>>

\* chat.message up to its first await: returns on a missing sessionId or text,
\* else broadcasts the optimistic copy.
chat_message(c, session_id, text, raw_sender_type) ==
    /\ conn[c] = "signaling"
    /\ \E m \in FreshMsgIds :
          IF Refused(session_id, text)
             THEN chat' = [chat EXCEPT ![m] =
                    [pc |-> "dropped", sid |-> c, session_id |-> session_id, text |-> text,
                     raw_sender_type |-> raw_sender_type]]
             ELSE chat' = [chat EXCEPT ![m] =
                    [pc |-> "ack", sid |-> c, session_id |-> session_id, text |-> text,
                     raw_sender_type |-> raw_sender_type, body |-> Strip(text),
                     sender_user_id |-> socket_state.sid_user[c],
                     optimistic_sender_type |-> OptimisticSenderType(raw_sender_type),
                     attempt |-> 0, last_error |-> "unknown_error", slept |-> <<>>,
                     message |-> [n |-> 1, to |-> Participants(<<"room", session_id>>),
                                  senderType |-> OptimisticSenderType(raw_sender_type),
                                  persisted |-> FALSE],
                     ack |-> [n |-> 0, to |-> {}, status |-> ""],
                     persisted |-> [n |-> 0, to |-> {}, senderType |-> "", persisted |-> FALSE],
                     failed |-> [n |-> 0, to |-> {}, error |-> ""]]]
    /\ UNCHANGED <<messages, sessionVars, gatewayVars, qrVars, doorVars, orderVars, visitVars>>

\* Mutant: the acknowledgment goes to the whole session room.
ChatAck_ToRoom(m) ==
    /\ chat[m].pc = "ack"
    /\ chat' = [chat EXCEPT ![m].pc = "spawn",
                            ![m].ack = [n |-> 1, to |-> Participants(<<"room", chat[m].session_id>>),
                                        status |-> "queued"]]
    /\ UNCHANGED <<messages, sessionVars, gatewayVars, qrVars, doorVars, orderVars, visitVars>>

\* chat.message resumed: acknowledges to the sender.
ChatAck(m) ==
    /\ chat[m].pc = "ack"
    /\ chat' = [chat EXCEPT ![m].pc = "spawn",
                            ![m].ack = [n |-> 1, to |-> Participants(<<"sid", chat[m].sid>>),
                                        status |-> "queued"]]
    /\ UNCHANGED <<messages, sessionVars, gatewayVars, qrVars, doorVars, orderVars, visitVars>>

\* chat.message resumed again: asyncio.create_task(persist_chat_message_with_retry).
ChatSpawn(m) ==
    /\ chat[m].pc = "spawn"
    /\ chat' = [chat EXCEPT ![m].pc = "attempt", ![m].attempt = 1]
    /\ UNCHANGED <<messages, sessionVars, gatewayVars, qrVars, doorVars, orderVars, visitVars>>

\* str(exc) of the exception a storage call raises in the given attempt: each
\* attempt raises an exception of its own.
ExcText(attempt) == <<"storage_error_1", "storage_error_2", "storage_error_3">>[attempt]

\* Mutant: the task ends silently when its attempts are used up.
AfterFailure_Silent(t, error) ==
    IF t.attempt < Len(CHAT_PERSIST_RETRY_DELAYS)
       THEN [t EXCEPT !.pc = "sleep", !.last_error = error]
       ELSE [t EXCEPT !.pc = "done", !.last_error = error]

\* Mutant: the failure notice goes to the whole session room.
AfterFailure_ToRoom(t, error) ==
    IF t.attempt < Len(CHAT_PERSIST_RETRY_DELAYS)
       THEN [t EXCEPT !.pc = "sleep", !.last_error = error]
       ELSE [t EXCEPT !.pc = "done", !.last_error = error,
                      !.failed = [n |-> t.failed.n + 1, to |-> Participants(<<"room", t.session_id>>),
                                  error |-> error]]

\* The task after a failed attempt: sleeps before the next one, or, the
\* delays used up, leaves the loop and emits chat.persist_failed to the sender.
AfterFailure(t, error) ==
    IF t.attempt < Len(CHAT_PERSIST_RETRY_DELAYS)
       THEN [t EXCEPT !.pc = "sleep", !.last_error = error]
       ELSE [t EXCEPT !.pc = "done", !.last_error = error,
                      !.failed = [n |-> t.failed.n + 1, to |-> Participants(<<"sid", t.sid>>),
                                  error |-> error]]

\* Mutant: a missing session is retried like a storage failure.
SessionNotFound_Retried(t) == AfterFailure(t, "session_not_found")

\* The task when its lookup finds no session: last_error = "session_not_found"
\* and break, then chat.persist_failed to the sender.
SessionNotFound(t) ==
    [t EXCEPT !.pc = "done", !.last_error = "session_not_found",
              !.failed = [n |-> t.failed.n + 1, to |-> Participants(<<"sid", t.sid>>),
                          error |-> "session_not_found"]]

\* Mutant: chat.persisted goes to the sender alone.
PersistedEvent_ToSender(t, resolved_sender_type) ==
    [n |-> t.persisted.n + 1, to |-> Participants(<<"sid", t.sid>>),
     senderType |-> resolved_sender_type, persisted |-> TRUE]

\* The chat.persisted emit that follows db.commit(): to the session room.
PersistedEvent(t, resolved_sender_type) ==
    [n |-> t.persisted.n + 1, to |-> Participants(<<"room", t.session_id>>),
     senderType |-> resolved_sender_type, persisted |-> TRUE]

\* The Message the task builds: n counts the rows stored under its id.
MessageRow(t, resolved_sender_type) ==
    [exists |-> TRUE, session_id |-> t.session_id, sender_type |-> resolved_sender_type,
     body |-> t.body, n |-> 1]

\* Mutant: messages.id is no key, so the insert of a stored id adds a row.
Commit_NoPrimaryKey(rows, m, row) ==
    [ok |-> TRUE,
     rows |-> [rows EXCEPT ![m] = IF rows[m].exists THEN [@ EXCEPT !.n = @ + 1] ELSE row]]

\* db.add(message); db.commit() on a table whose primary key is id: the
\* insert of a stored id raises and stores nothing.
Commit(rows, m, row) ==
    IF rows[m].exists THEN [ok |-> FALSE, rows |-> rows]
    ELSE [ok |-> TRUE, rows |-> [rows EXCEPT ![m] = row]]

\* One pass of the retry loop, to its await: storage_ok is whether the
\* storage calls of this attempt go through.
PersistAttempt(m, storage_ok) ==
    LET t == chat[m]
        session == sessions[t.session_id]
        resolved == ResolvedSenderType(t.sender_user_id, session.homeowner_id)
    IN
    /\ t.pc = "attempt"
    /\ IF ~storage_ok
          THEN /\ chat' = [chat EXCEPT ![m] = AfterFailure(t, ExcText(t.attempt))]
               /\ messages' = messages
          ELSE IF ~session.exists
          THEN /\ chat' = [chat EXCEPT ![m] = SessionNotFound(t)]
               /\ messages' = messages
          ELSE IF ~Commit(messages, m, MessageRow(t, resolved)).ok
          THEN /\ chat' = [chat EXCEPT ![m] = AfterFailure(t, "integrity_error")]
               /\ messages' = messages
          ELSE /\ messages' = Commit(messages, m, MessageRow(t, resolved)).rows
               /\ chat' = [chat EXCEPT ![m].pc = "done",
                                          ![m].persisted = PersistedEvent(t, resolved)]
    /\ UNCHANGED <<sessionVars, gatewayVars, qrVars, doorVars, orderVars, visitVars>>

\* One pass of the retry loop whose commit goes through and whose
\* chat.persisted emit raises: the row stays, the except clause takes the error.
PersistEmitFails(m) ==
    LET t == chat[m]
        session == sessions[t.session_id]
        resolved == ResolvedSenderType(t.sender_user_id, session.homeowner_id)
        res == Commit(messages, m, MessageRow(t, resolved))
    IN
    /\ t.pc = "attempt"
    /\ session.exists
    /\ res.ok
    /\ messages' = res.rows
    /\ chat' = [chat EXCEPT ![m] = AfterFailure(t, "emit_error")]
    /\ UNCHANGED <<sessionVars, gatewayVars, qrVars, doorVars, orderVars, visitVars>>

\* Mutant: the task is cancelled with its sender's connection.
PersistWake_WhileConnected(m) ==
    /\ chat[m].pc = "sleep"
    /\ conn[chat[m].sid] = "signaling"
    /\ chat' = [chat EXCEPT ![m].pc = "attempt", ![m].attempt = @ + 1,
                            ![m].slept = Append(@, CHAT_PERSIST_RETRY_DELAYS[chat[m].attempt])]
    /\ UNCHANGED <<messages, sessionVars, gatewayVars, qrVars, doorVars, orderVars, visitVars>>

\* asyncio.sleep(delay) returns: the next attempt.
PersistWake(m) ==
    /\ chat[m].pc = "sleep"
    /\ chat' = [chat EXCEPT ![m].pc = "attempt", ![m].attempt = @ + 1,
                            ![m].slept = Append(@, CHAT_PERSIST_RETRY_DELAYS[chat[m].attempt])]
    /\ UNCHANGED <<messages, sessionVars, gatewayVars, qrVars, doorVars, orderVars, visitVars>>

ChatInit ==
    /\ sessions \in ChatTables
    /\ now = 1
    /\ httpResult = [op |-> "none", session |-> 0, code |-> 0, detail |-> ""]
    /\ controlLog = {}
    /\ endCalls = [s \in SessionIds |-> 0]
    /\ \E userOf \in [Conns -> Users \cup {NoUser}], mem \in ChatRooms :
          GatewayAtRest([c \in Conns |-> "signaling"], userOf, mem)
    /\ ChatVarsInit
    /\ DoorVarsInit
    /\ OrderVarsInit
    /\ VisitVarsInit
    /\ QrVarsInit

ChatNext ==
    \/ \E c \in Conns, s \in SessionIds \cup {NoSession}, x \in Texts, k \in SenderClaims :
          chat_message(c, s, x, k)
    \/ \E m \in MsgIds : ChatAck(m)
    \/ \E m \in MsgIds : ChatSpawn(m)
    \/ \E m \in MsgIds, ok \in BOOLEAN : PersistAttempt(m, ok)
    \/ \E m \in MsgIds : PersistWake(m)
    \/ \E c \in Conns : SigDisconnect(c)
    \/ \E c \in Conns : SigDisconnectResume(c)

ChatSpec == ChatInit /\ [][ChatNext]_vars

\* The event loop runs every handler and task that is ready, and timers fire.
ChatFairness ==
    \A m \in MsgIds :
        /\ WF_vars(ChatAck(m))
        /\ WF_vars(ChatSpawn(m))
        /\ WF_vars(\E ok \in BOOLEAN : PersistAttempt(m, ok))
        /\ WF_vars(PersistWake(m))

LiveChatSpec == ChatInit /\ [][ChatNext]_vars /\ ChatFairness

\* The chat pipeline when the emit that follows a commit may fail.
RetryInit == ChatInit

RetryNext ==
    \/ \E c \in Conns, s \in SessionIds \cup {NoSession}, x \in Texts, k \in SenderClaims :
          chat_message(c, s, x, k)
    \/ \E m \in MsgIds : ChatAck(m)
    \/ \E m \in MsgIds : ChatSpawn(m)
    \/ \E m \in MsgIds, ok \in BOOLEAN : PersistAttempt(m, ok)
    \/ \E m \in MsgIds : PersistEmitFails(m)
    \/ \E m \in MsgIds : PersistWake(m)

RetrySpec == RetryInit /\ [][RetryNext]_vars

\* ------------------------------------------------- leaving a shared room
\* The connections of a room and one more that joins while they leave.
Parties == 1..(MaxConns + 1)

\* Every party connected to the signaling namespace, the first MaxConns of them
\* members of room 1, every handler finished; the members leave, the other one
\* joins rooms and leaves.
LeaveInit ==
    /\ SessionInit
    /\ ChatVarsInit
    /\ DoorVarsInit
    /\ QrVarsInit
    /\ OrderVarsInit
    /\ VisitVarsInit
    /\ conn = [c \in Parties |-> "signaling"]
    /\ socket_state = [user_sid |-> [u \in Users |-> NoSid], sid_user |-> [c \in Parties |-> NoUser]]
    /\ session_members = <<[room |-> 1, obj |-> 1]>>
    /\ heap = [o \in ObjIds |-> IF o = 1 THEN Conns ELSE {}]
    /\ nextObj = 2
    /\ sioRooms = [r \in Rooms |-> IF r = 1 THEN Conns ELSE {}]
    /\ join = [c \in Parties |-> IdleJoin]
    /\ disc = [c \in Parties |-> [pc |-> "idle", snap |-> <<>>, idx |-> 0, joined |-> {}]]
    /\ recorded = [c \in Parties |-> IF c \in Conns THEN {1} ELSE {}]
    /\ leftLog = [c \in Parties |-> [r \in Rooms |-> <<>>]]
    /\ relayLog = NoRelay

LeaveNext ==
    \/ \E c \in Parties \ Conns, r \in Rooms : SessionJoinEnter(c, r)
    \/ \E c \in Parties : SessionJoinRecord(c)
    \/ \E c \in Parties : SessionJoinAck(c)
    \/ \E c \in Parties : SigDisconnect(c)
    \/ \E c \in Parties : SigDisconnectResume(c)

LeaveSpec == LeaveInit /\ [][LeaveNext]_vars

\* ------------------------------------------------------------ event dispatch
\* Events a client sends to the signaling namespace: a chat message with and
\* without a sessionId, a control event, and signaling events to the room and to
\* a target connection.
ClientEvents ==
    {[kind |-> "chat.message", session_id |-> 1, target |-> NoTarget, action |-> "", text |-> <<"h", "i">>],
     [kind |-> "chat.message", session_id |-> NoSession, target |-> NoTarget, action |-> "", text |-> <<"h", "i">>],
     [kind |-> "session.control", session_id |-> 1, target |-> NoTarget, action |-> "mute", text |-> <<>>],
     [kind |-> "webrtc.offer", session_id |-> 1, target |-> NoTarget, action |-> "", text |-> <<>>],
     [kind |-> "webrtc.answer", session_id |-> NoSession, target |-> <<"sid", 2>>, action |-> "", text |-> <<>>],
     [kind |-> "webrtc.ice", session_id |-> 1, target |-> NoTarget, action |-> "", text |-> <<>>]}

\* Mutant: chat_message awaits something before it emits chat.message.
EmitPoint_ChatAfterAwait(kind) == IF kind = "chat.message" THEN "resume" ELSE "start"

\* Where a handler emits the event it relays: in chat_message, session_control
\* and the webrtc handlers the emit is the first await, nothing is awaited before.
EmitPoint(kind) == "start"

\* The connections the handler's emit of event e from connection c reaches; none
\* when the handler returns without emitting.
Emits(c, e) ==
    IF e.kind = "chat.message"
       THEN IF e.session_id = NoSession \/ Strip(e.text) = <<>>
               THEN {} ELSE Participants(<<"room", e.session_id>>)
    ELSE IF e.kind = "session.control"
       THEN IF e.session_id = NoSession \/ e.action = ""
               THEN {} ELSE Participants(<<"room", e.session_id>>)
    ELSE Relayed(c, e.kind, e.target, e.session_id).to

\* sio.emit: the packet is appended to the queue of every recipient.
Deliver(ob, to, kind, h) ==
    [d \in Conns |-> IF d \in to THEN Append(ob[d], [from |-> h.from, seq |-> h.seq, kind |-> kind])
                                 ELSE ob[d]]

\* A client sends an event on its connection.
Submit(c, e) ==
    LET h == [from |-> c, seq |-> Len(submissions[c]) + 1, event |-> e, pc |-> "start"] IN
    /\ conn[c] = "signaling"
    /\ Len(submissions[c]) < MaxEvents
    /\ submissions' = [submissions EXCEPT ![c] = Append(@, e)]
    /\ wire' = [wire EXCEPT ![c] = Append(@, h)]
    /\ UNCHANGED <<ready, suspended, outbox, sessionVars, gatewayVars, chatVars, qrVars, doorVars, visitVars>>

\* The server reads the connection's next packet and creates the task that
\* runs the event's handler.
Receive(c) ==
    /\ wire[c] # <<>>
    /\ ready' = Append(ready, Head(wire[c]))
    /\ wire' = [wire EXCEPT ![c] = Tail(@)]
    /\ UNCHANGED <<submissions, suspended, outbox, sessionVars, gatewayVars, chatVars, qrVars, doorVars, visitVars>>

\* The event loop starts the oldest task: the handler runs to its first await.
HandlerStart ==
    /\ ready # <<>>
    /\ LET h == Head(ready)
           to == Emits(h.from, h.event)
       IN /\ ready' = Tail(ready)
          /\ IF to = {}
                THEN UNCHANGED <<suspended, outbox>>
                ELSE IF EmitPoint(h.event.kind) = "start"
                THEN /\ outbox' = Deliver(outbox, to, h.event.kind, h)
                     /\ suspended' = suspended \cup {[h EXCEPT !.pc = "emitted"]}
                ELSE /\ outbox' = outbox
                     /\ suspended' = suspended \cup {[h EXCEPT !.pc = "await"]}
    /\ UNCHANGED <<submissions, wire, sessionVars, gatewayVars, chatVars, qrVars, doorVars, visitVars>>

\* A suspended handler goes on: chat_message emits chat.ack to the sender after
\* chat.message and then creates the persistence task; the others return.
HandlerResume(h) ==
    /\ h \in suspended
    /\ IF h.pc = "await"
          THEN /\ outbox' = Deliver(outbox, Emits(h.from, h.event), h.event.kind, h)
               /\ suspended' = (suspended \ {h}) \cup {[h EXCEPT !.pc = "emitted"]}
          ELSE IF h.pc = "emitted" /\ h.event.kind = "chat.message"
          THEN /\ outbox' = Deliver(outbox, Participants(<<"sid", h.from>>), "chat.ack", h)
               /\ suspended' = (suspended \ {h}) \cup {[h EXCEPT !.pc = "acked"]}
          ELSE /\ outbox' = outbox
               /\ suspended' = suspended \ {h}
    /\ UNCHANGED <<submissions, wire, ready, sessionVars, gatewayVars, chatVars, qrVars, doorVars, visitVars>>

\* Every connection in the signaling namespace and in the room of session 1.
OrderInit ==
    /\ SessionInit
    /\ ChatVarsInit
    /\ DoorVarsInit
    /\ QrVarsInit
    /\ OrderVarsInit
    /\ VisitVarsInit
    /\ GatewayAtRest([c \in Conns |-> "signaling"], [c \in Conns |-> NoUser],
                     [r \in Rooms |-> IF r = 1 THEN Conns ELSE {}])

OrderNext ==
    \/ \E c \in Conns, e \in ClientEvents : Submit(c, e)
    \/ \E c \in Conns : Receive(c)
    \/ HandlerStart
    \/ \E h \in suspended : HandlerResume(h)

OrderSpec == OrderInit /\ [][OrderNext]_vars

\* --------------------------------------------------------------- QR resolver
\* Latest subscription rows an estate owner can have: none, the free plan, a paid
\* plan with an end date, a paid plan with only a start date, a paid plan no
\* longer active.
SubRows ==
    {NoRow,
     [exists |-> TRUE, plan |-> "free", status |-> "active", starts_at |-> NoTime, ends_at |-> NoTime],
     [exists |-> TRUE, plan |-> "pro", status |-> "active", starts_at |-> NoTime, ends_at |-> 1],
     [exists |-> TRUE, plan |-> "pro", status |-> "active", starts_at |-> 1 - SubscriptionDays,
      ends_at |-> NoTime],
     [exists |-> TRUE, plan |-> "pro", status |-> "cancelled", starts_at |-> NoTime, ends_at |-> NoTime]}

is_paid_subscription_expired(row, t) ==
    IF ~row.exists \/ row.plan = "free" THEN FALSE
    ELSE IF row.status # "active" THEN TRUE
    ELSE LET expiry_at == IF row.ends_at # NoTime THEN row.ends_at
                          ELSE IF row.starts_at # NoTime THEN row.starts_at + SubscriptionDays
                          ELSE NoTime
         IN expiry_at # NoTime /\ t > expiry_at

\* Mutant: the update leaves the estate's last code out.
CascadeDeactivate_NotAll(codes, estate_id) ==
    [q \in QrIds |-> IF QrEstate[q] = estate_id /\ q # "q2" THEN FALSE ELSE codes[q]]

\* Mutant: the update is not committed.
CascadeDeactivate_None(codes, estate_id) == codes

\* UPDATE qr_codes SET active = false WHERE estate_id = :e AND active IS TRUE.
CascadeDeactivate(codes, estate_id) ==
    [q \in QrIds |-> IF QrEstate[q] = estate_id THEN FALSE ELSE codes[q]]

\* Mutant: only a missing code is rejected at once.
ResolveLoad_MissingOnly(r, q) ==
    /\ req[r].pc = "idle"
    /\ IF q \notin QrIds
          THEN req' = [req EXCEPT ![r] = [pc |-> "done", qr_id |-> q,
                                          result |-> "QR not found or inactive", rows |-> 0]]
          ELSE req' = [req EXCEPT ![r] = [pc |-> "loaded", qr_id |-> q, result |-> "", rows |-> 0]]
    /\ UNCHANGED <<qr_codes, subscriptions, sessionVars, gatewayVars, chatVars, doorVars, orderVars, visitVars>>

\* resolve_qr up to its first query: loads the code and rejects a missing or
\* inactive one.
ResolveLoad(r, q) ==
    /\ req[r].pc = "idle"
    /\ IF q \notin QrIds \/ ~qr_codes[q]
          THEN req' = [req EXCEPT ![r] = [pc |-> "done", qr_id |-> q,
                                          result |-> "QR not found or inactive", rows |-> 0]]
          ELSE req' = [req EXCEPT ![r] = [pc |-> "loaded", qr_id |-> q, result |-> "", rows |-> 0]]
    /\ UNCHANGED <<qr_codes, subscriptions, sessionVars, gatewayVars, chatVars, doorVars, orderVars, visitVars>>

\* resolve_qr from the estate lookup on: the cascade and its commit when the
\* owner's paid subscription has expired, the door list otherwise.
ResolveFinish(r) ==
    LET q == req[r].qr_id
        e == QrEstate[q]
    IN
    /\ req[r].pc = "loaded"
    /\ IF /\ e # NoEstate
          /\ e \in DOMAIN EstateOwner
          /\ is_paid_subscription_expired(subscriptions[EstateOwner[e]], now)
          THEN /\ qr_codes' = CascadeDeactivate(qr_codes, e)
               /\ req' = [req EXCEPT ![r] =
                            [pc |-> "done", qr_id |-> q,
                             result |-> "Estate subscription expired. QR codes are inactive.",
                             rows |-> Cardinality({x \in QrIds : QrEstate[x] = e /\ qr_codes[x]})]]
          ELSE /\ qr_codes' = qr_codes
               /\ req' = [req EXCEPT ![r] = [pc |-> "done", qr_id |-> q, result |-> "ok",
                                             rows |-> 0]]
    /\ UNCHANGED <<subscriptions, sessionVars, gatewayVars, chatVars, doorVars, orderVars, visitVars>>

QrInit ==
    /\ SessionInit
    /\ GatewayInit
    /\ ChatVarsInit
    /\ DoorVarsInit
    /\ OrderVarsInit
    /\ VisitVarsInit
    /\ qr_codes \in [QrIds -> BOOLEAN]
    /\ subscriptions \in [Users -> SubRows]
    /\ subscriptions["u2"] = NoRow
    /\ req = [r \in ReqIds |-> IdleReq]

QrNext ==
    \/ \E r \in ReqIds, q \in ScanIds : ResolveLoad(r, q)
    \/ \E r \in ReqIds : ResolveFinish(r)
    \/ Tick

QrSpec == QrInit /\ [][QrNext]_vars

\* ----------------------------------------------------------- visitor request
\* Door lists a code can be configured with (doors_csv, split and stripped): d1
\* and d2 have a door row with a home and an owner, d3 has no door row.
ConfiguredDoors == DoorLists \cup {<<"d3", "d1">>, <<"d1", "d3", "d2">>}
QrConfigs == [doors : ConfiguredDoors, mode : Modes, home_id : HomeIds]

\* A door id the Door-Home-User join of resolve_qr returns a row for.
InDoorIndex(d) ==
    /\ d \in DOMAIN DoorHome
    /\ DoorHome[d] \in DOMAIN HomeOwner
    /\ HomeOwner[DoorHome[d]] \in Users

\* Mutant: the doors come back in the order of the query's rows.
ReturnedDoors_RowOrder(door_ids) ==
    LET rows == SelectSeq(<<"d1", "d2">>, LAMBDA d : \E i \in 1..Len(door_ids) : door_ids[i] = d)
    IN IF rows # <<>> THEN rows ELSE door_ids

\* The "doors" of resolve_qr's result: the ids of door_options, which follow
\* door_ids and skip the ids without a row, or door_ids when no id has a row.
ReturnedDoors(door_ids) ==
    LET door_options == SelectSeq(door_ids, InDoorIndex)
    IN IF door_options # <<>> THEN door_options ELSE door_ids

\* resolve_qr as one call: its error or its doors, and the codes it leaves.
resolve_qr(q, config) ==
    IF q \notin QrIds \/ ~qr_codes[q]
       THEN [ok |-> FALSE, code |-> 404, detail |-> "QR not found or inactive", doors |-> <<>>,
             codes |-> qr_codes]
    ELSE IF /\ QrEstate[q] # NoEstate
            /\ QrEstate[q] \in DOMAIN EstateOwner
            /\ is_paid_subscription_expired(subscriptions[EstateOwner[QrEstate[q]]], now)
       THEN [ok |-> FALSE, code |-> 402,
             detail |-> "Estate subscription expired. QR codes are inactive.", doors |-> <<>>,
             codes |-> CascadeDeactivate(qr_codes, QrEstate[q])]
    ELSE [ok |-> TRUE, code |-> 200, detail |-> "ok", doors |-> ReturnedDoors(config.doors),
          codes |-> qr_codes]

\* Mutant: a failed door selection falls back to the first door.
RoutedDoor_FirstOnFailure(doors, mode, requested_door) ==
    LET sel == select_door(doors, mode, requested_door) IN
    IF sel.ok \/ doors = <<>> THEN sel
    ELSE [ok |-> TRUE, door |-> doors[1], err |-> "", code |-> 0]

\* The select_door call of create_visitor_session on the resolved doors.
RoutedDoor(doors, mode, requested_door) == select_door(doors, mode, requested_door)

\* visitor_request up to its await: resolve_qr, create_visitor_session and
\* create_notification; an exception of either of the first two ends the request.
visitor_request(q, requested_door) ==
    LET config == visit.config
        qr == resolve_qr(q, config)
        sel == RoutedDoor(qr.doors, config.mode, requested_door)
        base == [visit EXCEPT !.qr_id = q, !.requested_door = requested_door,
                              !.resolved = qr.ok, !.doors = qr.doors, !.session = 0]
    IN
    /\ visit.pc \in {"idle", "done"}
    /\ qr_codes' = qr.codes
    /\ IF ~qr.ok
          THEN /\ visit' = [base EXCEPT !.pc = "done", !.code = qr.code, !.detail = qr.detail]
               /\ sessions' = sessions
          ELSE IF ~sel.ok
          THEN /\ visit' = [base EXCEPT !.pc = "done", !.code = sel.code, !.detail = sel.err]
               /\ sessions' = sessions
          ELSE \E s \in FreshSessionIds :
                /\ sessions' = [sessions EXCEPT ![s] = NewSessionRow(sel.door, config.home_id)]
                /\ visit' = [base EXCEPT !.pc = "emit", !.code = 0, !.detail = "", !.session = s,
                                         !.notifications = @ + 1]
    /\ UNCHANGED <<now, httpResult, controlLog, endCalls, subscriptions, req, gatewayVars,
                   chatVars, doorVars, orderVars>>

\* visitor_request resumed: dashboard.patch is out and the response returns.
VisitorRequestEmit ==
    /\ visit.pc = "emit"
    /\ visit' = [visit EXCEPT !.pc = "done", !.code = 200, !.detail = "pending", !.patches = @ + 1]
    /\ UNCHANGED <<sessionVars, gatewayVars, chatVars, qrVars, doorVars, orderVars>>

VisitorRequest == \E q \in ScanIds, rd \in RequestedDoors : visitor_request(q, rd)

VisitInit ==
    /\ SessionInit
    /\ GatewayInit
    /\ ChatVarsInit
    /\ DoorVarsInit
    /\ OrderVarsInit
    /\ qr_codes \in [QrIds -> BOOLEAN]
    /\ subscriptions \in [Users -> SubRows]
    /\ subscriptions["u2"] = NoRow
    /\ req = [r \in ReqIds |-> IdleReq]
    /\ \E config \in QrConfigs : visit = IdleVisit(config)

VisitNext == VisitorRequest \/ VisitorRequestEmit

VisitSpec == VisitInit /\ [][VisitNext]_vars

\* ================================================================ claims

AllowedTransitions ==
    {<<"pending", "approved">>, <<"pending", "rejected">>,
     <<"pending", "closed">>, <<"approved", "closed">>}

\* C1: a session's status changes only along pending->approved, pending->rejected,
\* pending->closed or approved->closed; any other requested transition leaves
\* the status as it was.
C1_OnlyAllowedTransitions ==
    [][\A s \in SessionIds :
          (sessions[s].exists /\ sessions'[s].status # sessions[s].status)
              => <<sessions[s].status, sessions'[s].status>> \in AllowedTransitions]_vars

\* C2: in every reachable state, a session's endedAt is set if and only if its
\* status is terminal (rejected, closed or completed).
C2_EndedIffTerminal ==
    \A s \in SessionIds :
        sessions[s].exists =>
            ((sessions[s].ended_at # NoTime) <=> (sessions[s].status \in TerminalStatuses))

\* C4: bind is last-write-wins with a single binding per user: at most one
\* connection's reverse mapping resolves to a given user, and the connection
\* lookup(u) returns is the one connection that resolves to u.
C4_SingleBindingPerUser ==
    \A u \in Users :
        /\ Cardinality({c \in Conns : socket_state.sid_user[c] = u}) <= 1
        /\ get_sid(socket_state, u) # NoSid
              => {c \in Conns : socket_state.sid_user[c] = u} = {get_sid(socket_state, u)}

\* C5: once a connection's disconnect has completed, it is in no room it had
\* joined, exactly one participant_left was emitted for each such room, and none
\* for any other room.
C5_DisconnectLeavesJoinedRooms ==
    \A c \in Conns :
        disc[c].pc = "done" =>
            \A r \in Rooms :
                IF r \in disc[c].joined
                   THEN c \notin Members(r) /\ Len(leftLog[c][r]) = 1
                   ELSE Len(leftLog[c][r]) = 0

\* C6: under every interleaving of session.join and disconnect of one connection,
\* once the disconnect handler has completed the connection is a member of no
\* room of the membership table.
C6_NoMemberAfterDisconnect ==
    \A c \in Conns : disc[c].pc = "done" => \A r \in Rooms : c \notin Members(r)

\* The submission m passed validation and its chat.message went out.
Broadcast(m) == chat[m].pc \notin {"free", "dropped"}

Dispositions(m) == chat[m].persisted.n + chat[m].failed.n

\* C3: every chat message that was broadcast gets exactly one terminal
\* disposition, one chat.persisted or one chat.persist_failed: never two, and
\* eventually one, whatever storage attempts fail.
C3_ExactlyOneDisposition ==
    /\ [](\A m \in MsgIds : Broadcast(m) => Dispositions(m) <= 1)
    /\ \A m \in MsgIds :
          Broadcast(m) ~> (Broadcast(m) /\ Dispositions(m) = 1)

\* A message persisted on a later attempt, after a storage failure.
C3_Witness ==
    \E m \in MsgIds :
        chat[m].pc = "done" /\ chat[m].attempt >= 2 /\ chat[m].persisted.n = 1

\* C7: the sender type of the stored message and of chat.persisted is
\* "homeowner" exactly when the identity bound to the sending connection is the
\* session's homeowner_id, whatever type the client claimed.
C7_SenderTypeFromIdentity ==
    \A m \in MsgIds :
      /\ (Broadcast(m) /\ conn[chat[m].sid] = "signaling") =>
            chat[m].sender_user_id = socket_state.sid_user[chat[m].sid]
      /\ (Broadcast(m) /\ (messages[m].exists \/ chat[m].persisted.n > 0)) =>
            LET owns == chat[m].sender_user_id = sessions[chat[m].session_id].homeowner_id
                expected == IF owns THEN "homeowner" ELSE "visitor"
            IN /\ messages[m].exists /\ messages[m].sender_type = expected
               /\ chat[m].persisted.n > 0 => chat[m].persisted.senderType = expected

\* An unauthenticated sender claiming "homeowner" is stored as a visitor.
C7_Witness ==
    \E m \in MsgIds :
        /\ chat[m].pc = "done"
        /\ messages[m].exists
        /\ chat[m].sender_user_id = NoUser
        /\ chat[m].optimistic_sender_type = "homeowner"
        /\ messages[m].sender_type = "visitor"

ExpiredResult == "Estate subscription expired. QR codes are inactive."

\* C8: once a resolve call has returned the subscription-expired error, no code
\* of that code's estate is active: the cascade is committed before the failure.
C8_CascadeBeforeExpiryError ==
    \A r \in ReqIds :
        (req[r].pc = "done" /\ req[r].result = ExpiredResult) =>
            \A q \in QrIds : QrEstate[q] = QrEstate[req[r].qr_id] => ~qr_codes[q]

\* A call that failed with the expiry error after deactivating two codes.
C8_Witness ==
    \E r \in ReqIds : req[r].pc = "done" /\ req[r].result = ExpiredResult /\ req[r].rows = 2

\* C9: under any interleaving of resolve calls on one estate's codes, only one
\* call fails with the expiry error; every other call fails with "inactive".
C9_CascadeExactlyOnce ==
    \A e \in DOMAIN EstateOwner :
        Cardinality({r \in ReqIds : /\ req[r].pc = "done"
                                    /\ req[r].result = ExpiredResult
                                    /\ QrEstate[req[r].qr_id] = e}) <= 1

\* C10: a targeted event reaches one connection only, a broadcast
\* reaches the room's other members, and the sender never receives its own event.
C10_NeverEchoesToSender ==
    relayLog.emitted =>
        /\ relayLog.target # NoTarget => Cardinality(relayLog.to) <= 1
        /\ relayLog.target = NoTarget =>
              relayLog.to = Participants(<<"room", relayLog.session>>) \ {relayLog.from}
        /\ relayLog.from \notin relayLog.to

\* ------------------------------------------------------------ door router
InDoors(d, doors) == \E i \in 1..Len(doors) : doors[i] = d

Returned(mode_set) ==
    doorCall.pc = "returned" /\ doorCall.mode \in mode_set

\* C11: in mode "selector" with a non-empty list, select_door returns the
\* requested door exactly when it is present and a member of the list, and
\* otherwise fails with "Door selection required", never with another door.
C11_SelectorRequiresMember ==
    (Returned({"selector"}) /\ doorCall.doors # <<>>) =>
        IF doorCall.requested_door # NoDoor /\ InDoors(doorCall.requested_door, doorCall.doors)
           THEN doorCall.result.ok /\ doorCall.result.door = doorCall.requested_door
           ELSE /\ ~doorCall.result.ok
                /\ doorCall.result.err = "Door selection required"
                /\ doorCall.result.door = NoDoor

\* A selector call naming a door outside a two-door list has failed.
C11_Witness ==
    /\ Returned({"selector"})
    /\ Len(doorCall.doors) = 2
    /\ doorCall.requested_door # NoDoor
    /\ ~InDoors(doorCall.requested_door, doorCall.doors)
    /\ ~doorCall.result.ok

\* C12: in mode "direct" with a non-empty list, select_door returns doors[0]
\* whatever the requested door is.
C12_DirectFirstDoor ==
    (Returned({"direct"}) /\ doorCall.doors # <<>>) =>
        doorCall.result.ok /\ doorCall.result.door = doorCall.doors[1]

\* A direct call that named another member of the list got the first door.
C12_Witness ==
    /\ Returned({"direct"})
    /\ doorCall.doors # <<>>
    /\ InDoors(doorCall.requested_door, doorCall.doors)
    /\ doorCall.requested_door # doorCall.doors[1]
    /\ doorCall.result.door = doorCall.doors[1]

\* C13: on an empty list select_door fails with "No doors configured for QR"
\* in every mode and for every requested door.
C13_EmptyListFails ==
    (doorCall.pc = "returned" /\ doorCall.doors = <<>>) =>
        /\ ~doorCall.result.ok
        /\ doorCall.result.err = "No doors configured for QR"
        /\ doorCall.result.door = NoDoor

\* A direct call on an empty list, with a requested door, has failed.
C13_Witness ==
    /\ Returned({"direct"})
    /\ doorCall.doors = <<>>
    /\ doorCall.requested_door # NoDoor
    /\ doorCall.result.err = "No doors configured for QR"

\* C14: in every mode other than "direct" and "selector", with a non-empty
\* list, select_door returns doors[0] whatever the requested door is.
C14_UnknownModeFirstDoor ==
    (Returned(DoorModes \ {"direct", "selector"}) /\ doorCall.doors # <<>>) =>
        doorCall.result.ok /\ doorCall.result.door = doorCall.doors[1]

\* C14 amended: in every mode other than "direct" and "selector", with a
\* non-empty list, select_door returns the requested door when it is present
\* and a member of the list, and doors[0] otherwise; it never fails.
C14_UnknownModeRequestedOrFirst ==
    (Returned(DoorModes \ {"direct", "selector"}) /\ doorCall.doors # <<>>) =>
        /\ doorCall.result.ok
        /\ doorCall.result.door =
              IF doorCall.requested_door # NoDoor /\ InDoors(doorCall.requested_door, doorCall.doors)
                 THEN doorCall.requested_door
                 ELSE doorCall.doors[1]

\* An unknown-mode call naming a door outside a list of two different doors
\* got the first.
C14_Witness ==
    /\ Returned(DoorModes \ {"direct", "selector"})
    /\ Len(doorCall.doors) = 2
    /\ doorCall.doors[1] # doorCall.doors[2]
    /\ doorCall.requested_door # NoDoor
    /\ ~InDoors(doorCall.requested_door, doorCall.doors)
    /\ doorCall.result.door = doorCall.doors[1]

\* ---------------------------------------------------------- session.control
DecisionDone(s) ==
    /\ httpResult.op = "decision" /\ httpResult.code = 200 /\ httpResult.session = s
    /\ sessions[s].status \in {"approved", "rejected"}

ControlEmitted(s) ==
    \E e \in controlLog : e.sessionId = s

\* C15: every successful decision (approved or rejected) on a session is
\* followed by a session.control event to that session's room: a decision
\* answered while no such event has been emitted yet leads to one.
C15_DecisionIsBroadcast ==
    \A s \in SessionIds : (DecisionDone(s) /\ ~ControlEmitted(s)) ~> ControlEmitted(s)

\* C16: across every status update endedAt, once stamped, keeps its value, and
\* closing an already-closed session is accepted and leaves its row as it was.
C16_EndedAtStampedOnce ==
    [][\A s \in SessionIds :
          /\ (sessions[s].exists /\ sessions[s].ended_at # NoTime)
                => sessions'[s].ended_at = sessions[s].ended_at
          /\ (sessions[s].exists /\ sessions[s].status = "closed" /\ endCalls'[s] > endCalls[s])
                => sessions'[s] = sessions[s]]_vars

\* A closed session being closed again at a later time, its end time kept.
C16_Witness ==
    \E s \in SessionIds :
        /\ sessions[s].exists /\ sessions[s].status = "closed"
        /\ httpResult = [op |-> "end", session |-> s, code |-> 200, detail |-> "closed"]
        /\ endCalls[s] = 1
        /\ sessions[s].ended_at # NoTime /\ sessions[s].ended_at < now

\* ------------------------------------------------------- presence registry
\* C17: unbind removes both directions in one step: once a connection's
\* disconnect handler has run unbind_sid, the connection resolves to no user and
\* no user's lookup returns it; and in every state a user's lookup returns only
\* a connection that still resolves to that user, so no state shows the
\* connection's entry gone with a lookup still returning it.
C17_UnbindRemovesBothDirections ==
    /\ \A c \in Conns :
          conn[c] \in {"closing", "closed"} =>
              /\ socket_state.sid_user[c] = NoUser
              /\ \A u \in Users : get_sid(socket_state, u) # c
    /\ \A u \in Users :
          get_sid(socket_state, u) # NoSid =>
              socket_state.sid_user[get_sid(socket_state, u)] = u

\* A connection has been unbound after its user rebound to a later connection,
\* which keeps the user's lookup.
C17_Witness ==
    \E c, d \in Conns, u \in Users :
        /\ c < d
        /\ conn[c] = "closed"
        /\ conn[d] # "closed"
        /\ get_sid(socket_state, u) = d
        /\ socket_state.sid_user[d] = u

\* ------------------------------------------------------------- chat pipeline
Submitted(m) == chat[m].pc # "free"

\* What every broadcast chat.message carries: one copy, not yet persisted, to
\* every member of the session room (all of them while nobody has left).
OneOptimisticCopy(m) ==
    /\ chat[m].message.n = 1
    /\ chat[m].message.persisted = FALSE
    /\ Participants(<<"room", chat[m].session_id>>) \subseteq chat[m].message.to
    /\ (\A c \in Conns : conn[c] = "signaling") =>
          chat[m].message.to = Participants(<<"room", chat[m].session_id>>)

\* C18: every chat submission with a sessionId and a non-empty text produces
\* exactly one chat.message, delivered to the whole session room, the sender
\* included, with persisted = false and the client-claimed sender type.
C18_OptimisticBroadcast ==
    \A m \in MsgIds :
        (Submitted(m) /\ chat[m].session_id # NoSession /\ chat[m].text # <<>>) =>
            /\ Broadcast(m)
            /\ OneOptimisticCopy(m)
            /\ chat[m].message.senderType = chat[m].raw_sender_type

\* C18 amended: a chat submission is broadcast exactly when it has a sessionId
\* and a text that is non-empty once surrounding whitespace is stripped; it then
\* produces exactly one chat.message, delivered to the whole session room, the
\* sender included, with persisted = false and with the client-claimed sender
\* type when that is "homeowner" or "visitor", and "visitor" otherwise.
C18_OptimisticBroadcastOfStrippedText ==
    \A m \in MsgIds :
        Submitted(m) =>
            /\ Broadcast(m) <=> (chat[m].session_id # NoSession /\ Strip(chat[m].text) # <<>>)
            /\ Broadcast(m) =>
                  /\ OneOptimisticCopy(m)
                  /\ chat[m].message.senderType =
                        IF chat[m].raw_sender_type \in {"homeowner", "visitor"}
                           THEN chat[m].raw_sender_type ELSE "visitor"

\* A padded text from a room member claiming "homeowner" went to the room of
\* two, the sender included.
C18_Witness ==
    \E m \in MsgIds :
        /\ Broadcast(m)
        /\ chat[m].text # chat[m].body
        /\ chat[m].raw_sender_type = "homeowner"
        /\ chat[m].message.senderType = "homeowner"
        /\ chat[m].sid \in chat[m].message.to
        /\ Cardinality(chat[m].message.to) = 2

\* C19: chat.ack, status "queued", goes to the sender only, and for every
\* message the broadcast comes first, then the ack, then the first storage
\* attempt: no attempt starts and no row is written before both are out.
C19_AckThenPersist ==
    \A m \in MsgIds :
        Broadcast(m) =>
            /\ chat[m].ack.n <= 1
            /\ chat[m].ack.n = 1 =>
                  /\ chat[m].ack.status = "queued"
                  /\ chat[m].ack.to \subseteq {chat[m].sid}
                  /\ chat[m].message.n = 1
            /\ (chat[m].pc = "ack") <=> (chat[m].ack.n = 0)
            /\ (chat[m].attempt >= 1 \/ messages[m].exists \/ Dispositions(m) > 0) =>
                  (chat[m].message.n = 1 /\ chat[m].ack.n = 1)

\* The sender, in a room of two, got the ack alone and the task has started.
C19_Witness ==
    \E m \in MsgIds :
        /\ Broadcast(m)
        /\ chat[m].attempt = 1
        /\ chat[m].ack.to = {chat[m].sid}
        /\ Cardinality(chat[m].message.to) = 2

RECURSIVE Increasing(_)
Increasing(s) == Len(s) < 2 \/ (s[1] < s[2] /\ Increasing(Tail(s)))

\* C20: the persistence task makes at most Len(CHAT_PERSIST_RETRY_DELAYS) = 3
\* storage attempts, sleeps between consecutive attempts with strictly
\* increasing delays, attempts nothing once it is done, and always ends.
C20_BoundedRetries ==
    /\ [](\A m \in MsgIds :
            Broadcast(m) =>
                /\ chat[m].attempt <= Len(CHAT_PERSIST_RETRY_DELAYS)
                /\ Len(CHAT_PERSIST_RETRY_DELAYS) = 3
                /\ Increasing(chat[m].slept)
                /\ chat[m].attempt >= 1 => Len(chat[m].slept) = chat[m].attempt - 1
                /\ (chat[m].failed.n = 1 /\ chat[m].failed.error # "session_not_found")
                      => chat[m].attempt = Len(CHAT_PERSIST_RETRY_DELAYS))
    /\ [][\A m \in MsgIds :
            (Broadcast(m) /\ chat[m].pc = "done") => (chat'[m] = chat[m] /\ messages'[m] = messages[m])]_vars
    /\ \A m \in MsgIds : Broadcast(m) ~> (chat[m].pc = "done")

\* A task that used its whole budget: three attempts, two sleeps, a failure notice.
C20_Witness ==
    \E m \in MsgIds :
        /\ Broadcast(m)
        /\ chat[m].pc = "done"
        /\ chat[m].attempt = 3
        /\ Len(chat[m].slept) = 2
        /\ chat[m].failed.n = 1

C22_FailureToSenderOnly ==
    \A m \in MsgIds :
        Broadcast(m) =>
            /\ chat[m].failed.n <= 1
            /\ (chat[m].pc = "done" /\ ~messages[m].exists) <=> (chat[m].failed.n = 1)
            /\ chat[m].failed.n = 1 =>
                  /\ chat[m].failed.to \subseteq {chat[m].sid}
                  /\ conn[chat[m].sid] = "signaling" => chat[m].failed.to = {chat[m].sid}
                  /\ chat[m].failed.error = chat[m].last_error
                  /\ \/ chat[m].failed.error = "session_not_found"
                     \/ /\ chat[m].attempt = Len(CHAT_PERSIST_RETRY_DELAYS)
                        /\ chat[m].failed.error = ExcText(chat[m].attempt)

\* Three attempts failed; the sender alone, in a room of two, got the notice
\* with the third attempt's error.
C22_Witness ==
    \E m \in MsgIds :
        /\ Broadcast(m)
        /\ chat[m].attempt = 3
        /\ chat[m].failed.n = 1
        /\ chat[m].failed.to = {chat[m].sid}
        /\ chat[m].failed.error = ExcText(3)
        /\ Cardinality(Participants(<<"room", chat[m].session_id>>)) = 2

\* C23: a disconnect of the sender leaves the message's handler and task as
\* they are; with the sender gone the task still runs to a committed record or
\* to the end of its attempts, and a failure notice with nobody to receive it
\* is dropped: the task is done all the same.
C23_DisconnectDoesNotCancel ==
    /\ [][\A c \in Conns : conn'[c] # conn[c] => (chat' = chat /\ messages' = messages)]_vars
    /\ \A m \in MsgIds :
          (Broadcast(m) /\ conn[chat[m].sid] # "signaling") ~>
              /\ chat[m].pc = "done"
              /\ \/ messages[m].exists
                 \/ /\ chat[m].failed.n = 1
                    /\ \/ chat[m].attempt = Len(CHAT_PERSIST_RETRY_DELAYS)
                       \/ chat[m].last_error = "session_not_found"
    /\ [][\A m \in MsgIds :
            (Broadcast(m) /\ chat[m].failed.n = 0 /\ chat'[m].failed.n = 1
                /\ conn[chat[m].sid] # "signaling") =>
                (chat'[m].failed.to = {} /\ chat'[m].pc = "done")]_vars

\* The sender left before the first attempt; the task used all three attempts
\* and its failure notice reached nobody.
C23_Witness ==
    \E m \in MsgIds :
        /\ Broadcast(m)
        /\ conn[chat[m].sid] # "signaling"
        /\ chat[m].pc = "done"
        /\ chat[m].attempt = 3
        /\ chat[m].failed.n = 1
        /\ chat[m].failed.to = {}

\* ------------------------------------------------------------ session rows
\* C24: session creation fails when the selected door has no owning home or
\* homeowner: no session row has an empty homeowner_id, a door that is not in
\* the Door table or a home that is not in the Home table.
C24_NoSessionWithoutOwner ==
    \A s \in SessionIds :
        sessions[s].exists =>
            /\ sessions[s].homeowner_id # ""
            /\ sessions[s].door_id \in DOMAIN DoorHome
            /\ sessions[s].home_id \in DOMAIN HomeOwner

\* --------------------------------------------------------------- QR resolver
InactiveResult == "QR not found or inactive"

\* Request r starts in this step, for the code Scanned(r).
Starts(r) == req[r].pc = "idle" /\ req'[r].pc # "idle"
Scanned(r) == req'[r].qr_id

\* A resolve call has returned the expiry error for a code of estate e.
Cascaded(e) ==
    \E r \in ReqIds :
        /\ req[r].pc = "done"
        /\ req[r].result = ExpiredResult
        /\ QrEstate[req[r].qr_id] = e

\* C25: once a resolve has cascaded an estate's deactivation, every resolve that
\* starts afterwards for a code of that estate fails at once with "not found or
\* inactive", not with the expiry error, and writes nothing.
C25_AfterCascadeInactive ==
    [][\A r \in ReqIds :
          (Starts(r) /\ Scanned(r) \in QrIds /\ Cascaded(QrEstate[Scanned(r)])) =>
              /\ req'[r].pc = "done"
              /\ req'[r].result = InactiveResult
              /\ qr_codes' = qr_codes]_vars

\* One call deactivated both codes of the estate; a later call for the other
\* code failed as inactive.
C25_Witness ==
    \E r1, r2 \in ReqIds :
        /\ req[r1].pc = "done" /\ req[r1].result = ExpiredResult /\ req[r1].rows = 2
        /\ req[r2].pc = "done" /\ req[r2].result = InactiveResult
        /\ req[r2].qr_id \in QrIds
        /\ req[r2].qr_id # req[r1].qr_id
        /\ QrEstate[req[r2].qr_id] = QrEstate[req[r1].qr_id]

\* C26: a resolve of a code that is missing or inactive fails with "not found or
\* inactive" and changes no code's active flag, whatever the subscription of
\* the estate's owner.
C26_MissingOrInactiveFails ==
    [][\A r \in ReqIds :
          (Starts(r) /\ (Scanned(r) \notin QrIds \/ ~qr_codes[Scanned(r)])) =>
              /\ req'[r].pc = "done"
              /\ req'[r].result = InactiveResult
              /\ req'[r].rows = 0
              /\ qr_codes' = qr_codes]_vars

\* An inactive code of an estate whose owner's paid subscription has expired
\* failed as inactive, with no cascade by anyone and the other code still active.
C26_Witness ==
    \E r \in ReqIds :
        /\ req[r].pc = "done" /\ req[r].result = InactiveResult
        /\ req[r].qr_id = "q1"
        /\ is_paid_subscription_expired(subscriptions["u1"], now)
        /\ qr_codes["q2"]
        /\ \A k \in ReqIds : req[k].result # ExpiredResult

\* ------------------------------------------------------------ event dispatch
\* The submission numbers of the relayed events connection d has been sent from
\* connection c, in the order of d's queue.
SeqsFromTo(c, d) ==
    LET Relay(e) == e.from = c /\ e.kind # "chat.ack"
        q == SelectSeq(outbox[d], Relay)
    IN [i \in 1..Len(q) |-> q[i].seq]

\* The handler of c's k-th submission has started.
Handled(c, k) ==
    /\ \A i \in 1..Len(wire[c]) : wire[c][i].seq # k
    /\ \A i \in 1..Len(ready) : ~(ready[i].from = c /\ ready[i].seq = k)

\* C27: the events a connection receives from another connection's submissions
\* (chat.message, session.control, webrtc.*) are in its queue in the order they
\* were submitted, each once, whatever the interleaving of the handlers; no
\* event whose handler has started is missing.
C27_SubmissionOrder ==
    \A c \in Conns : \A d \in Conns \ {c} :
        /\ Increasing(SeqsFromTo(c, d))
        /\ \A k \in 1..Len(submissions[c]) :
              (Handled(c, k) /\ d \in Emits(c, submissions[c][k])) =>
                  \E i \in 1..Len(outbox[d]) :
                      outbox[d][i] = [from |-> c, seq |-> k, kind |-> submissions[c][k].kind]

\* Connection 2 got connection 1's chat message and then its offer while the
\* chat handler was still suspended before its ack.
C27_Witness ==
    /\ Len(outbox[2]) >= 2
    /\ outbox[2][1] = [from |-> 1, seq |-> 1, kind |-> "chat.message"]
    /\ outbox[2][2] = [from |-> 1, seq |-> 2, kind |-> "webrtc.offer"]
    /\ \E h \in suspended : h.from = 1 /\ h.seq = 1 /\ h.pc = "emitted"

\* ------------------------------------------------------------- chat pipeline
Blank(text) == \A i \in 1..Len(text) : text[i] = " "

\* C28: a chat submission with no sessionId, or with a text that is missing,
\* empty or only whitespace, is a silent no-op: it has no chat.message, no
\* chat.ack, no persistence task and no stored record, now or later, and the
\* step that handles it changes no presence, room or storage state.
C28_InvalidChatIsNoOp ==
    /\ [](\A m \in MsgIds :
            (Submitted(m) /\ (chat[m].session_id = NoSession \/ Blank(chat[m].text))) =>
                /\ chat[m].pc = "dropped"
                /\ DOMAIN chat[m] \cap {"message", "ack", "attempt", "persisted", "failed"} = {}
                /\ ~messages[m].exists)
    /\ [][\A m \in MsgIds :
            (chat'[m].pc = "dropped" /\ chat[m].pc # "dropped") =>
                /\ chat[m].pc = "free"
                /\ \A k \in MsgIds \ {m} : chat'[k] = chat[k]
                /\ UNCHANGED <<messages, conn, socket_state, session_members, heap, sioRooms>>]_vars
    /\ [][\A m \in MsgIds : chat[m].pc = "dropped" => chat'[m] = chat[m]]_vars

\* A whitespace-only text for session 1 from a member of its room was dropped.
C28_Witness ==
    \E m \in MsgIds :
        /\ chat[m].pc = "dropped"
        /\ chat[m].session_id = 1
        /\ chat[m].text = <<" ">>
        /\ chat[m].sid \in sioRooms[1]

\* --------------------------------------------------------- signaling relay
\* C29: every webrtc.offer, webrtc.answer and webrtc.ice that is delivered
\* carries, besides the payload, a sender field equal to the id of the
\* connection it came from, on the explicit-target path and on the room path.
C29_RelayCarriesSender ==
    (relayLog.emitted /\ relayLog.to # {}) => relayLog.sender = relayLog.from

\* ---------------------------------------------------------- session.control
\* C30: every session.control emitted, relayed from a client or sent by
\* end-visit, carries a sessionId, an action, a senderSid and a time; a client
\* submission without sessionId or action emits nothing.
C30_ControlCarriesAllFields ==
    \A e \in controlLog :
        /\ e.sessionId # NoSession
        /\ e.action # ""
        /\ e.senderSid # NoSid
        /\ e.at # NoTime

\* ------------------------------------------------------- disconnect frame
\* Connection c's disconnect handler takes this step.
DisconnectStep(c) ==
    \/ disc'[c] # disc[c]
    \/ conn[c] = "dashboard" /\ conn'[c] = "closed"

\* C31: a step of connection c's disconnect handler changes no other
\* connection's reverse binding, no user's binding to another connection and
\* no room membership of another connection that is still connected.
C31_DisconnectFrame ==
    [][\A c \in DOMAIN conn :
          DisconnectStep(c) =>
              /\ \A d \in DOMAIN conn \ {c} :
                    /\ socket_state'.sid_user[d] = socket_state.sid_user[d]
                    /\ conn[d] = "signaling" =>
                          \A r \in Rooms : (d \in Members(r))' <=> (d \in Members(r))
              /\ \A u \in Users :
                    socket_state.user_sid[u] # c =>
                        socket_state'.user_sid[u] = socket_state.user_sid[u]]_vars

\* ------------------------------------------------------------ session rows
\* C32: once a session exists, every step (a decision, an end-visit, another
\* creation, the passing of time) leaves it in place with the door_id and the
\* home_id it was created with.
C32_DoorAndHomeFixed ==
    [][\A s \in SessionIds :
          sessions[s].exists =>
              /\ sessions'[s].exists
              /\ sessions'[s].door_id = sessions[s].door_id
              /\ sessions'[s].home_id = sessions[s].home_id]_vars

\* A session created for door d2 was approved and then closed, and still has
\* the door and the door's home.
C32_Witness ==
    \E s \in SessionIds :
        /\ sessions[s].exists
        /\ sessions[s].status = "closed"
        /\ sessions[s].ended_at # NoTime
        /\ sessions[s].door_id = "d2"
        /\ sessions[s].home_id = "h2"

\* ------------------------------------------------------------- chat pipeline
NoSuchSession(m) == ~sessions[chat[m].session_id].exists

\* C33: no message is stored for a session that does not exist: the task of
\* such a message makes one attempt only, stores nothing and ends with
\* chat.persist_failed, error session_not_found, to the sender.
C33_MissingSessionOneAttempt ==
    \A m \in MsgIds :
        (Broadcast(m) /\ NoSuchSession(m)) =>
            /\ ~messages[m].exists
            /\ chat[m].attempt <= 1
            /\ chat[m].pc = "done" =>
                  /\ chat[m].failed.n = 1
                  /\ chat[m].failed.to \subseteq {chat[m].sid}
                  /\ chat[m].failed.error = "session_not_found"

\* C33 amended: no message is stored for a session that does not exist; an
\* attempt whose lookup finds no session is the task's last and ends it with
\* chat.persist_failed, error session_not_found, to the sender, while an attempt
\* whose storage call fails is retried, the third such failure being reported
\* with its own error.
C33_MissingSessionStopsAtLookup ==
    /\ [](\A m \in MsgIds :
            /\ messages[m].exists => sessions[messages[m].session_id].exists
            /\ (Broadcast(m) /\ NoSuchSession(m)) =>
                  /\ ~messages[m].exists
                  /\ chat[m].pc = "done" =>
                        /\ chat[m].failed.n = 1
                        /\ chat[m].failed.to \subseteq {chat[m].sid}
                        /\ \/ chat[m].failed.error = "session_not_found"
                           \/ /\ chat[m].attempt = Len(CHAT_PERSIST_RETRY_DELAYS)
                              /\ chat[m].failed.error = ExcText(chat[m].attempt))
    /\ [][\A m \in MsgIds :
            (/\ Broadcast(m) /\ NoSuchSession(m)
             /\ chat[m].pc = "attempt" /\ chat'[m] # chat[m]
             /\ chat'[m].last_error # ExcText(chat[m].attempt)) =>
                /\ chat'[m].pc = "done"
                /\ chat'[m].attempt = chat[m].attempt
                /\ chat'[m].failed.n = 1
                /\ chat'[m].failed.error = "session_not_found"
                /\ conn[chat[m].sid] = "signaling" => chat'[m].failed.to = {chat[m].sid}]_vars

\* The first attempt's storage call failed, the second found no session: the
\* task ended there and told the sender.
C33_Witness ==
    \E m \in MsgIds :
        /\ Broadcast(m) /\ NoSuchSession(m)
        /\ chat[m].pc = "done"
        /\ chat[m].attempt = 2
        /\ chat[m].failed.error = "session_not_found"
        /\ chat[m].failed.to = {chat[m].sid}

\* ----------------------------------------------------------- visitor request
\* C34: a successful resolve returns the configured door list in its order, and
\* the session a direct-mode request creates is for the first configured door.
C34_ReturnedDoorsAreConfigured ==
    visit.resolved =>
        /\ visit.doors = visit.config.doors
        /\ (visit.config.mode = "direct" /\ visit.session # 0) =>
              sessions[visit.session].door_id = visit.config.doors[1]

\* The configured doors that have a door row with a home and an owner, in order.
RECURSIVE WithRecord(_)
WithRecord(door_ids) ==
    IF door_ids = <<>> THEN <<>>
    ELSE IF InDoorIndex(Head(door_ids)) THEN <<Head(door_ids)>> \o WithRecord(Tail(door_ids))
    ELSE WithRecord(Tail(door_ids))

\* C34 amended: a successful resolve returns the configured doors that have a
\* door record with a home and an owner, in their configured order, or the
\* whole configured list when none has one; the session a direct-mode request
\* creates is for the first door of that list.
C34_ReturnedDoorsAreConfiguredWithRecord ==
    visit.resolved =>
        LET kept == WithRecord(visit.config.doors)
            expected == IF kept # <<>> THEN kept ELSE visit.config.doors
        IN /\ visit.doors = expected
           /\ (visit.config.mode = "direct" /\ visit.session # 0) =>
                 sessions[visit.session].door_id = expected[1]

\* A direct-mode code configured with d3, d1, of which d3 has no record: the
\* request was answered with a session for d1.
C34_Witness ==
    /\ visit.pc = "done" /\ visit.code = 200
    /\ visit.config.doors = <<"d3", "d1">>
    /\ visit.config.mode = "direct"
    /\ visit.doors = <<"d1">>
    /\ sessions[visit.session].door_id = "d1"

\* The door selection the request's resolved doors lead to.
Selection == select_door(visit.doors, visit.config.mode, visit.requested_door)

\* C40: a visitor request whose QR resolution or door selection fails ends with
\* that error, and its step creates no session, stores no notification and
\* emits no dashboard.patch; only a request that passes both gets a session.
C40_FailedRequestCreatesNothing ==
    /\ [](visit.pc = "done" =>
            /\ ~visit.resolved =>
                  /\ visit.code \in {402, 404}
                  /\ visit.session = 0
            /\ (visit.resolved /\ ~Selection.ok) =>
                  /\ visit.code = Selection.code
                  /\ visit.detail = Selection.err
                  /\ visit.session = 0
            /\ (visit.code = 200) <=> (visit.resolved /\ Selection.ok))
    /\ [](/\ Cardinality({s \in SessionIds : sessions[s].exists}) = visit.notifications
          /\ visit.patches = visit.notifications - (IF visit.pc = "emit" THEN 1 ELSE 0))
    /\ [][(visit.pc # "emit" /\ visit'.pc = "done") =>
            /\ sessions' = sessions
            /\ visit'.notifications = visit.notifications
            /\ visit'.patches = visit.patches]_vars

\* After one request was answered with a session, a request without a door
\* choice on the selector-mode code failed and added nothing.
C40_Witness ==
    /\ visit.pc = "done"
    /\ visit.resolved
    /\ visit.code = 400
    /\ visit.detail = "Door selection required"
    /\ visit.notifications = 1
    /\ visit.patches = 1
    /\ Cardinality({s \in SessionIds : sessions[s].exists}) = 1

\* ------------------------------------------------------- presence registry
\* No identity claim and no token, or a token that does not decode.
Unresolvable(auth) == auth.userId = "" /\ auth.token \in {"", "bad"}

Connected(c) == conn[c] \in {"dashboard", "signaling"}

\* C35: in every state, a connect with an unresolvable identity is accepted on
\* both namespaces and leaves the registry as it is; a connected connection
\* that resolved to no user is the lookup of no user.
C35_UnresolvedConnectIsAnonymous ==
    /\ \A a \in Auths : Unresolvable(a) => resolve_user_id(a) = NoUser
    /\ \A c \in Conns :
          /\ conn[c] = "new" =>
                \A a \in Auths :
                    Unresolvable(a) =>
                        /\ ENABLED DashConnect(c, a)
                        /\ ENABLED SigConnect(c, a)
                        /\ BoundOnConnect(socket_state, c, a) = socket_state
          /\ (Connected(c) /\ socket_state.sid_user[c] = NoUser) =>
                \A u \in Users : get_sid(socket_state, u) # c

\* User u1 is bound to connection 1; connection 2 connected without an
\* identity and the binding is as it was.
C35_Witness ==
    /\ Connected(1) /\ Connected(2)
    /\ get_sid(socket_state, "u1") = 1
    /\ socket_state.sid_user[1] = "u1"
    /\ socket_state.sid_user[2] = NoUser


\* C36: every emit of session.join carries the number of distinct connections
\* in the room with the joiner among them: session.participant_joined goes to
\* the other members and never to the joiner, session.joined goes to the
\* joiner, and a join by a connection already in the room leaves the count
\* where it was.
JoinEmit(c) == join'[c] # join[c] /\ join'[c].event # ""
C36_JoinCountIsRoomSize ==
    [][\A c \in DOMAIN join : \A room \in Rooms :
          (JoinEmit(c) /\ join'[c].room = room) =>
              /\ c \in Members(room)'
              /\ join'[c].count = Cardinality(Members(room)')
              /\ join'[c].event = "session.participant_joined" => c \notin join'[c].to
              /\ join'[c].event = "session.joined" => join'[c].to = {c}
              /\ c \in Members(room) => join'[c].count = Cardinality(Members(room))]_vars

\* C37: after any sequence of connects and disconnects on the dashboard and
\* the signaling namespace, a user's lookup returns only a connection that is
\* still connected and whose own entry resolves to that user; a connection
\* that has not connected yet or has disconnected is no user's lookup.
C37_LookupIsLive ==
    /\ \A u \in Users :
          LET c == get_sid(socket_state, u) IN
          c # NoSid => Connected(c) /\ socket_state.sid_user[c] = u
    /\ \A c \in Conns :
          ~Connected(c) => \A u \in Users : get_sid(socket_state, u) # c

\* The second user is looked up on the first connection of the signaling
\* namespace after the second connection has gone.
C37_Witness ==
    /\ conn[1] = "signaling"
    /\ conn[2] = "closed"
    /\ get_sid(socket_state, "u2") = 1
    /\ socket_state.sid_user[1] = "u2"
    /\ get_sid(socket_state, "u1") = NoSid

\* C38: whatever attempts fail, and also when the emit that follows a commit
\* fails and the task tries again, the messages table holds at most one row
\* for a message id, and every attempt after the commit stores nothing.
C38_OneRowPerMessage ==
    [][\A m \in MsgIds :
          /\ messages'[m].exists => messages'[m].n = 1
          /\ messages[m].exists => messages'[m] = messages[m]]_vars

\* The row is stored, its commit's emit failed, and every later attempt was
\* refused by the table: the task gave up after its last attempt.
C38_Witness ==
    \E m \in MsgIds :
        /\ messages[m].exists
        /\ chat[m].pc = "done"
        /\ chat[m].attempt = Len(CHAT_PERSIST_RETRY_DELAYS)
        /\ chat[m].last_error = "integrity_error"
        /\ chat[m].persisted.n = 0

\* C39: a decision (approve or reject) or an end-visit by a user who is not
\* the session's homeownerId, or for a session that does not exist, fails with
\* 404 "Visit not found", leaves every session row as it was (status and
\* endedAt with it) and emits no session.control, at once or later.
Foreign(s, u) == ~sessions[s].exists \/ sessions[s].homeowner_id # u
Refusal(op, s) == [op |-> op, session |-> s, code |-> 404, detail |-> "Visit not found"]
C39_ForeignCallChangesNothing ==
    [][\A s \in SessionIds, u \in Users :
          Foreign(s, u) =>
              /\ \A a \in {"approve", "reject"} :
                    homeowner_visit_decision(s, a, u) =>
                        /\ httpResult' = Refusal("decision", s)
                        /\ sessions' = sessions
                        /\ controlLog' = controlLog /\ endCalls' = endCalls
              /\ homeowner_end_visit(s, u) =>
                    /\ httpResult' = Refusal("end", s)
                    /\ sessions' = sessions
                    /\ controlLog' = controlLog /\ endCalls' = endCalls]_vars

\* The second user's end-visit of the first user's pending session has been
\* refused: the session is still pending and no session.control is out.
C39_Witness ==
    /\ httpResult = Refusal("end", 1)
    /\ sessions[1].exists /\ sessions[1].homeowner_id = "u1"
    /\ sessions[1].status = "pending" /\ sessions[1].ended_at = NoTime
    /\ controlLog = {}
    /\ endCalls[1] = 0

====
